---- MODULE Spec2Model ----
(***************************************************************************)
(* Error Buddy: the error classification and explanation-resolution        *)
(* engine (ErrorListener of the CLI, AIService.parseResponse of the        *)
(* backend).                                                               *)
(*                                                                         *)
(* A JavaScript string is a sequence of symbols.  For the ErrorListener a  *)
(* symbol is a lexeme of the diagnostic text (a word, a run of digits, one *)
(* punctuation character, one white-space character); for parseResponse a *)
(* symbol is one character.  A regular expression is a sequence of atoms   *)
(* and is run by the backtracking matcher Run, which tries alternatives in *)
(* the priority order of the JavaScript engine (greedy: longest first,     *)
(* lazy: shortest first, leftmost start first).                            *)
(***************************************************************************)
EXTENDS Integers, Sequences, FiniteSets, Bags, TLC

VARIABLES errorText, analysis, ret, responseParts, response, result, pc,
          stderrText, twinText, sanitized, resanitized, twinSanitized,
          knowledge, requests, shown, explained, autoExplainEnabled, statusBarItem,
          options, at, ollamaAvailable, pending, stderrBuffer, errorDetected, printed, calls, childStatus, exitStatus,
          model, method, step, timer, reply, raised, outcome, served,
          history, historyFile, savedIds, returned

listenerVars == <<errorText, analysis, ret>>

parserVars == <<responseParts, response, result>>

sanitizerVars == <<stderrText, twinText, sanitized, resanitized, twinSanitized>>

extensionVars == <<knowledge, requests, shown, explained, autoExplainEnabled, statusBarItem>>

commandVars == <<options, at, ollamaAvailable, pending, stderrBuffer, errorDetected, printed, calls, childStatus, exitStatus>>

serviceVars == <<model, method, step, timer, reply, raised, outcome, served>>

historyVars == <<history, historyFile, savedIds, returned>>

vars == <<listenerVars, parserVars, pc, sanitizerVars, extensionVars, commandVars, serviceVars, historyVars>>

-----------------------------------------------------------------------------
(* JavaScript values *)

\* null, for a field that holds a string or null
null == [isNull |-> TRUE]

\* a string value s (a sequence of symbols)
Str(s) == [isNull |-> FALSE, s |-> s]

\* JavaScript truthiness of a string-or-null value: null and '' are falsy
Truthy(v) == (~v.isNull) /\ Len(v.s) > 0

\* x || null
OrNull(v) == IF Truthy(v) THEN v ELSE null

-----------------------------------------------------------------------------
(* Regular expressions *)

\* one symbol out of the set s
One(s) == [k |-> "one", s |-> s]

\* the literal text lit
Lit(lit) == [i \in 1..Len(lit) |-> One({lit[i]})]

\* sub* (greedy), sub*? (lazy), sub? (greedy), (?:alts[1]|alts[2]|...)
Star(sub) == <<[k |-> "star", sub |-> sub]>>
Lazy(sub) == <<[k |-> "lazy", sub |-> sub]>>
Opt(sub) == <<[k |-> "opt", sub |-> sub]>>
Alt(alts) == <<[k |-> "alt", alts |-> alts]>>

\* sub+ and sub+?
Plus(sub) == sub \o Star(sub)
LazyPlus(sub) == sub \o Lazy(sub)

\* capture group g around sub
Group(g, sub) == <<[k |-> "open", g |-> g]>> \o sub \o <<[k |-> "close", g |-> g]>>

\* ^ and $ under the m flag, $ without it, and the lookahead (?=sub)
Bol == <<[k |-> "bol"]>>
Eol == <<[k |-> "eol"]>>
End == <<[k |-> "end"]>>
Ahead(sub) == <<[k |-> "ahead", sub |-> sub]>>

\* no capture group has taken part yet (the patterns have at most three)
NoCaptures == [g \in {1, 2, 3} |-> <<0, 0>>]

NoMatch == [ok |-> FALSE]

\* The match of re at position p of text t, tried in the engine's priority
\* order; c holds the capture groups' bounds so far.
RECURSIVE Run(_, _, _, _)
Run(re, t, p, c) ==
    IF Len(re) = 0 THEN [ok |-> TRUE, e |-> p, c |-> c]
    ELSE LET a == Head(re)
             rest == Tail(re)
         IN CASE a.k = "one" ->
                    IF p <= Len(t) /\ t[p] \in a.s
                    THEN Run(rest, t, p + 1, c) ELSE NoMatch
              [] a.k = "star" ->
                    LET more == Run(a.sub \o re, t, p, c)
                    IN IF more.ok THEN more ELSE Run(rest, t, p, c)
              [] a.k = "lazy" ->
                    LET none == Run(rest, t, p, c)
                    IN IF none.ok THEN none ELSE Run(a.sub \o re, t, p, c)
              [] a.k = "opt" ->
                    LET with == Run(a.sub \o rest, t, p, c)
                    IN IF with.ok THEN with ELSE Run(rest, t, p, c)
              [] a.k = "alt" ->
                    LET RECURSIVE Try(_)
                        Try(i) == IF i > Len(a.alts) THEN NoMatch
                                  ELSE LET r == Run(a.alts[i] \o rest, t, p, c)
                                       IN IF r.ok THEN r ELSE Try(i + 1)
                    IN Try(1)
              [] a.k = "open" -> Run(rest, t, p, [c EXCEPT ![a.g] = <<p, 0>>])
              [] a.k = "close" -> Run(rest, t, p, [c EXCEPT ![a.g][2] = p])
              [] a.k = "bol" ->
                    IF p = 1 \/ t[p - 1] = "\n" THEN Run(rest, t, p, c) ELSE NoMatch
              [] a.k = "eol" ->
                    IF p = Len(t) + 1 \/ t[p] = "\n" THEN Run(rest, t, p, c) ELSE NoMatch
              [] a.k = "end" ->
                    IF p = Len(t) + 1 THEN Run(rest, t, p, c) ELSE NoMatch
              [] a.k = "ahead" ->
                    IF Run(a.sub, t, p, c).ok THEN Run(rest, t, p, c) ELSE NoMatch

\* The leftmost match of re in t at or after position p
RECURSIVE SearchFrom(_, _, _)
SearchFrom(re, t, p) ==
    IF p > Len(t) + 1 THEN NoMatch
    ELSE LET r == Run(re, t, p, NoCaptures)
         IN IF r.ok THEN [ok |-> TRUE, b |-> p, e |-> r.e, c |-> r.c]
            ELSE SearchFrom(re, t, p + 1)

\* t.match(re) without the g flag
Match(re, t) == SearchFrom(re, t, 1)

\* re.test(t)
Test(re, t) == Match(re, t).ok

\* m[g] of a successful match: undefined (here null) when group g did not take part
Captured(m, t, g) ==
    IF m.c[g][1] = 0 THEN null ELSE Str(SubSeq(t, m.c[g][1], m.c[g][2] - 1))

\* t.includes(s)
Includes(t, s) ==
    \E i \in 1..(Len(t) - Len(s) + 1) : SubSeq(t, i, i + Len(s) - 1) = s

-----------------------------------------------------------------------------
(* The lexemes of diagnostic text, by character class *)

Digits == {"0103", "10", "12", "15", "3000", "5"}

Letters ==
    {"CS", "Cannot", "ENOENT", "EACCES", "ECONNREFUSED", "Error", "Exception",
     "Main", "NullPointer", "NullReference", "Object", "Program", "Reference",
     "Server", "Some", "Syntax", "System", "Type", "Uncaught", "Unhandled", "a",
     "app", "at", "cannot", "com", "cs", "defined", "error", "example",
     "exception", "find", "function", "generic", "happened", "ies", "in", "is",
     "java", "js", "lang", "line", "main", "map", "module", "node_modules",
     "not", "of", "on", "port", "propert", "read", "reading", "reference",
     "set", "started", "symbol", "thread", "ts", "undefined", "x", "y", "null",
     "failed", "fatal", "unable", "to"}

Spaces == {" ", "\n"}

Puncts == {"\"", "'", "(", ")", ",", ".", ":", "$", "<", ">"}

Lexemes == Digits \cup Letters \cup Spaces \cup Puncts

\* \w  \d  \s  \S  .  and the bracket classes of the patterns
cW == <<One(Digits \cup Letters)>>
cD == <<One(Digits)>>
cS == <<One(Spaces)>>
cNonS == <<One(Lexemes \ Spaces)>>
cAny == <<One(Lexemes \ {"\n"})>>
wDot == <<One(Digits \cup Letters \cup {"."})>>
wDotDollar == <<One(Digits \cup Letters \cup {".", "$"})>>
wDotAngle == <<One(Digits \cup Letters \cup {".", "<", ">"})>>

\* the lexemes that spell word, ignoring case (the i flag)
IgnoreCase(word) ==
    <<One(CASE word = "error" -> {"error", "Error"}
            [] word = "exception" -> {"exception", "Exception"}
            [] word = "cannot" -> {"cannot", "Cannot"}
            [] OTHER -> {word})>>

\* \w+(?:\.\w+)*
dottedName == Plus(cW) \o Star(Lit(<<".">>) \o Plus(cW))

SystemErrors == <<One({"ENOENT", "EACCES", "ECONNREFUSED"})>>

-----------------------------------------------------------------------------
(* ERROR_PATTERNS *)

ERROR_PATTERNS ==
    [javascript |->
        [patterns |-> <<
            Bol \o Group(1, Star(cW) \o Lit(<<"Error">>)) \o Lit(<<":", " ">>)
                \o Group(2, Plus(cAny)) \o Eol,
            Bol \o Group(1, Star(cW) \o Lit(<<"Exception">>)) \o Lit(<<":", " ">>)
                \o Group(2, Plus(cAny)) \o Eol,
            Lit(<<"Syntax", "Error", ":", " ">>) \o Group(1, Plus(cAny)),
            Lit(<<"Cannot", " ", "find", " ", "module", " ", "'">>)
                \o Group(1, Plus(cAny)) \o Lit(<<"'">>),
            Lit(<<"is", " ", "not", " ", "defined">>),
            Lit(<<"is", " ", "not", " ", "a", " ", "function">>),
            Lit(<<"Cannot", " ", "read", " ", "propert">>) \o <<One({"y", "ies"})>>
                \o Lit(<<" ", "of", " ">>) \o Group(1, <<One({"undefined", "null"})>>),
            SystemErrors >>,
         fileLinePattern |->
            Lit(<<"at">>) \o Plus(cS) \o Star(cAny) \o Opt(Lit(<<"(">>))
                \o Group(1, Star(cAny)) \o Lit(<<":">>) \o Group(2, Plus(cD))
                \o Lit(<<":">>) \o Group(3, Plus(cD)) \o Opt(Lit(<<")">>))],
     java |->
        [patterns |-> <<
            Bol \o Lit(<<"Exception", " ", "in", " ", "thread", " ", "\"">>)
                \o Star(cAny) \o Lit(<<"\"", " ">>) \o Group(1, dottedName)
                \o Lit(<<":", " ">>) \o Group(2, Star(cAny)) \o Eol,
            Bol \o Group(1, dottedName \o Lit(<<"Exception">>)) \o Lit(<<":", " ">>)
                \o Group(2, Star(cAny)) \o Eol,
            Bol \o Group(1, dottedName \o Lit(<<"Error">>)) \o Lit(<<":", " ">>)
                \o Group(2, Star(cAny)) \o Eol,
            Bol \o Lit(<<"Caused", " ", "by", ":", " ">>) \o Group(1, dottedName)
                \o Lit(<<":", " ">>) \o Group(2, Star(cAny)) \o Eol,
            Lit(<<"cannot", " ", "find", " ", "symbol">>),
            Lit(<<"error", ":", " ">>) \o Group(1, Plus(cAny)),
            Lit(<<"incompatible", " ", "types">>) >>,
         fileLinePattern |->
            Lit(<<"at">>) \o Plus(cS) \o Plus(wDotDollar) \o Lit(<<"(">>)
                \o Group(1, Plus(wDot)) \o Lit(<<":">>) \o Group(2, Plus(cD))
                \o Lit(<<")">>)],
     csharp |->
        [patterns |-> <<
            Bol \o Lit(<<"Unhandled", " ", "exception", ".", " ">>)
                \o Group(1, dottedName) \o Lit(<<":", " ">>)
                \o Group(2, Star(cAny)) \o Eol,
            Bol \o Group(1, dottedName \o Lit(<<"Exception">>)) \o Lit(<<":", " ">>)
                \o Group(2, Star(cAny)) \o Eol,
            Lit(<<"error", " ", "CS">>) \o Plus(cD) \o Lit(<<":", " ">>)
                \o Group(1, Plus(cAny)),
            Lit(<<"Object", " ", "reference", " ", "not", " ", "set">>),
            Lit(<<"Index", " ", "was", " ", "outside", " ", "the", " ", "bounds">>),
            Lit(<<"The", " ", "type", " ", "or", " ", "namespace", " ", "name", " ">>)
                \o Star(cAny)
                \o Lit(<<" ", "could", " ", "not", " ", "be", " ", "found">>) >>,
         fileLinePattern |->
            Lit(<<"in">>) \o Plus(cS) \o Group(1, Star(cAny)) \o Lit(<<":", "line">>)
                \o Plus(cS) \o Group(2, Plus(cD))]]

-----------------------------------------------------------------------------
(* COMMON_ERRORS: per language, the entries in Object.entries order; an     *)
(* example that spans several lines is given as one line                  *)

Explanation(what, why, fix, example) ==
    [what |-> what, why |-> why, fix |-> fix, example |-> example]

COMMON_ERRORS ==
    [javascript |-> <<
        [key |-> <<"Type", "Error">>, subErrors |-> <<
            [key |-> <<"Cannot", " ", "read", " ", "propert", "y">>,
             explanation |-> Explanation(
                "You tried to access a property on something that is undefined or null.",
                "The variable you're accessing doesn't exist or hasn't been assigned a value yet.",
                "Add a null check before accessing properties.",
                "if (data && data.users) { data.users.map(...) }")],
            [key |-> <<"is", " ", "not", " ", "a", " ", "function">>,
             explanation |-> Explanation(
                "You tried to call something as a function, but it's not a function.",
                "The variable might be undefined, or you imported/accessed the wrong thing.",
                "Check that you're calling the right function and it's properly imported.",
                "if (typeof myFunc === 'function') { myFunc(); }")] >>],
        [key |-> <<"Reference", "Error">>, subErrors |-> <<
            [key |-> <<"is", " ", "not", " ", "defined">>,
             explanation |-> Explanation(
                "You're using a variable that doesn't exist in the current scope.",
                "Either the variable was never declared, or it's spelled wrong, or it's out of scope.",
                "Make sure the variable is declared (const, let, var) before using it.",
                "const myVar = 'hello'; console.log(myVar);")] >>],
        [key |-> <<"Syntax", "Error">>, subErrors |-> <<
            [key |-> <<"default">>,
             explanation |-> Explanation(
                "Your code has a syntax mistake that JavaScript cannot understand.",
                "Missing brackets, quotes, semicolons, or other syntax issues.",
                "Check the line number mentioned and look for missing or extra characters.",
                "// Common issues: ...")] >>],
        [key |-> <<"ENOENT">>, subErrors |-> <<
            [key |-> <<"default">>,
             explanation |-> Explanation(
                "A file or directory you tried to access doesn't exist.",
                "The path is wrong, or the file was deleted/moved.",
                "Check that the file path is correct and the file exists.",
                "if (fs.existsSync('./myfile.txt')) { ... }")] >>],
        [key |-> <<"ECONNREFUSED">>, subErrors |-> <<
            [key |-> <<"default">>,
             explanation |-> Explanation(
                "Your code tried to connect to a server that refused the connection.",
                "The server might not be running, wrong port, or firewall blocking.",
                "Make sure the server is running and the port/host are correct.",
                "// Common checks: ...")] >>] >>,
     java |-> <<
        [key |-> <<"NullPointer", "Exception">>, subErrors |-> <<
            [key |-> <<"default">>,
             explanation |-> Explanation(
                "You tried to use an object that is null (doesn't exist).",
                "A variable wasn't initialized, or a method returned null.",
                "Add null checks before using objects.",
                "if (user != null) { user.getName(); }")] >>],
        [key |-> <<"ArrayIndexOutOfBounds", "Exception">>, subErrors |-> <<
            [key |-> <<"default">>,
             explanation |-> Explanation(
                "You tried to access an array index that doesn't exist.",
                "Arrays are 0-indexed, so an array of size 5 has indices 0-4.",
                "Check array length before accessing an index.",
                "if (index >= 0 && index < arr.length) { arr[index] = 10; }")] >>],
        [key |-> <<"ClassNotFound", "Exception">>, subErrors |-> <<
            [key |-> <<"default">>,
             explanation |-> Explanation(
                "Java cannot find a class you're trying to use.",
                "The class isn't in your classpath, or the name is misspelled.",
                "Check your dependencies (pom.xml/build.gradle) and class name.",
                "// Check: ...")] >>],
        [key |-> <<"cannot", " ", "find", " ", "symbol">>, subErrors |-> <<
            [key |-> <<"default">>,
             explanation |-> Explanation(
                "Java compiler cannot find a variable, method, or class you're using.",
                "Typo in name, missing import, or wrong scope.",
                "Check spelling and make sure imports are correct.",
                "// Common causes: ...")] >>] >>,
     csharp |-> <<
        [key |-> <<"NullReference", "Exception">>, subErrors |-> <<
            [key |-> <<"default">>,
             explanation |-> Explanation(
                "You tried to use an object that is null.",
                "A variable wasn't initialized, or a method returned null.",
                "Add null checks or use null-conditional operators.",
                "var name = user?.Name;")] >>],
        [key |-> <<"IndexOutOfRange", "Exception">>, subErrors |-> <<
            [key |-> <<"default">>,
             explanation |-> Explanation(
                "You tried to access an array/list index that doesn't exist.",
                "The index is negative or greater than the collection size.",
                "Check collection length before accessing an index.",
                "if (index >= 0 && index < items.Length) { var x = items[index]; }")] >>],
        [key |-> <<"CS", "0103">>, subErrors |-> <<
            [key |-> <<"default">>,
             explanation |-> Explanation(
                "The name you're using doesn't exist in the current context.",
                "Variable not declared, typo, or missing using statement.",
                "Check variable spelling and add any missing using statements.",
                "using System.Linq;")] >>],
        [key |-> <<"CS", "0246">>, subErrors |-> <<
            [key |-> <<"default">>,
             explanation |-> Explanation(
                "C# cannot find a type or namespace you're trying to use.",
                "Missing using statement, missing NuGet package, or typo.",
                "Add the using statement or install the required NuGet package.",
                "using Newtonsoft.Json;")] >>] >>]

-----------------------------------------------------------------------------
(* ErrorListener *)

\* the language name l as a JavaScript string
Lang(l) == Str(<<l>>)

errorIndicators ==
    << IgnoreCase("error"),
       IgnoreCase("exception"),
       IgnoreCase("failed"),
       IgnoreCase("cannot"),
       IgnoreCase("unable") \o Lit(<<" ">>) \o IgnoreCase("to"),
       IgnoreCase("fatal"),
       SystemErrors,
       Lit(<<"at">>) \o Plus(cS) \o Plus(wDot) \o Lit(<<"(">>) \o Star(cAny)
           \o Lit(<<":">>) \o Plus(cD) >>

detectError(text) ==
    \E i \in 1..Len(errorIndicators) : Test(errorIndicators[i], text)

\* the indicator patterns of detectLanguage, per language
languageIndicators ==
    [javascript |-> <<
        Lit(<<"at">>) \o Plus(cS) \o Plus(cNonS) \o Plus(cS) \o Lit(<<"(">>)
            \o Star(cAny) \o Lit(<<".", "js", ":">>) \o Plus(cD) \o Lit(<<":">>)
            \o Plus(cD) \o Lit(<<")">>),
        Lit(<<"at">>) \o Plus(cS) \o Star(cAny) \o Lit(<<".", "js", ":">>)
            \o Plus(cD) \o Lit(<<":">>) \o Plus(cD),
        Lit(<<"node_modules">>),
        SystemErrors,
        Lit(<<"Cannot", " ", "find", " ", "module">>) >>,
     java |-> <<
        Lit(<<"at">>) \o Plus(cS) \o Plus(wDotDollar) \o Lit(<<"(">>) \o Plus(wDot)
            \o Lit(<<".", "java", ":">>) \o Plus(cD) \o Lit(<<")">>),
        Lit(<<"Exception", " ", "in", " ", "thread">>),
        Lit(<<".", "java", ":">>) \o Plus(cD) \o Lit(<<":">>),
        Lit(<<"at">>) \o Plus(cS) \o Lit(<<"java", ".">>) >>,
     csharp |-> <<
        Lit(<<"at">>) \o Plus(cS) \o Plus(wDotAngle) \o Lit(<<"(">>) \o Star(cAny)
            \o Lit(<<")">>) \o Plus(cS) \o Lit(<<"in">>) \o Plus(cS) \o Star(cAny)
            \o Lit(<<":", "line">>) \o Plus(cS) \o Plus(cD),
        Lit(<<"error", " ", "CS">>) \o Plus(cD),
        Lit(<<".", "cs", "(">>) \o Plus(cD) \o Lit(<<",">>) \o Plus(cD) \o Lit(<<")">>),
        Lit(<<"Unhandled", " ", "exception", ".", " ", "System", ".">>),
        Lit(<<"at">>) \o Plus(cS) \o Lit(<<"System", ".">>) >>]

\* some indicator pattern of language l matches the text
Indicates(l, text) ==
    \E i \in 1..Len(languageIndicators[l]) : Test(languageIndicators[l][i], text)

\* detectLanguage with the java block moved in front of the javascript block
detectLanguageJavaFirst(errorText_) ==
    IF Indicates("java", errorText_) THEN Lang("java")
    ELSE IF Indicates("javascript", errorText_) THEN Lang("javascript")
    ELSE IF Indicates("csharp", errorText_) THEN Lang("csharp")
    ELSE null

detectLanguage(errorText_) ==
    IF Indicates("javascript", errorText_) THEN Lang("javascript")
    ELSE IF Indicates("java", errorText_) THEN Lang("java")
    ELSE IF Indicates("csharp", errorText_) THEN Lang("csharp")
    ELSE null

\* the inner for loop without its return: the last sub-pattern that is
\* 'default' or occurs in the text
RECURSIVE lastSubPattern(_, _, _)
lastSubPattern(subErrors, text, i) ==
    IF i > Len(subErrors) THEN null
    ELSE LET later == lastSubPattern(subErrors, text, i + 1)
         IN IF later # null THEN later
            ELSE IF subErrors[i].key = <<"default">> \/ Includes(text, subErrors[i].key)
                 THEN subErrors[i].explanation
                 ELSE null

\* the first sub-pattern of subErrors, at or after i, that is 'default' or
\* occurs in the text (the inner for loop); null when none does
RECURSIVE firstSubPattern(_, _, _)
firstSubPattern(subErrors, text, i) ==
    IF i > Len(subErrors) THEN null
    ELSE IF subErrors[i].key = <<"default">> \/ Includes(text, subErrors[i].key)
         THEN subErrors[i].explanation
         ELSE firstSubPattern(subErrors, text, i + 1)

\* subErrors.default, when the entry has one
defaultOf(subErrors) ==
    IF \E i \in 1..Len(subErrors) : subErrors[i].key = <<"default">>
    THEN (CHOOSE e \in {subErrors[i] : i \in 1..Len(subErrors)} :
              e.key = <<"default">>).explanation
    ELSE null

\* the outer for loop without its returns: the last explanation found is kept
RECURSIVE scanExplanationsLast(_, _, _, _)
scanExplanationsLast(langExplanations, errorType, text, i) ==
    IF i > Len(langExplanations) THEN null
    ELSE LET entry == langExplanations[i]
             found == firstSubPattern(entry.subErrors, text, 1)
             later == scanExplanationsLast(langExplanations, errorType, text, i + 1)
         IN IF later # null THEN later
            ELSE IF Includes(text, entry.key)
                    \/ (~errorType.isNull /\ Includes(errorType.s, entry.key))
                 THEN IF found # null THEN found ELSE defaultOf(entry.subErrors)
                 ELSE null

\* the outer for loop of getLocalExplanation from entry i on
RECURSIVE scanExplanations(_, _, _, _)
scanExplanations(langExplanations, errorType, text, i) ==
    IF i > Len(langExplanations) THEN null
    ELSE LET entry == langExplanations[i]
             found == firstSubPattern(entry.subErrors, text, 1)
         IN IF Includes(text, entry.key)
               \/ (~errorType.isNull /\ Includes(errorType.s, entry.key))
            THEN IF found # null THEN found
                 ELSE IF defaultOf(entry.subErrors) # null
                      THEN defaultOf(entry.subErrors)
                      ELSE scanExplanations(langExplanations, errorType, text, i + 1)
            ELSE scanExplanations(langExplanations, errorType, text, i + 1)

getLocalExplanation(analysis_, text) ==
    IF ~Truthy(analysis_.language)
       \/ analysis_.language.s[1] \notin DOMAIN COMMON_ERRORS
    THEN null
    ELSE scanExplanations(COMMON_ERRORS[analysis_.language.s[1]],
                          analysis_.errorType, text, 1)

\* the for loop without its break: the last pattern that matches the text
RECURSIVE lastPattern(_, _, _)
lastPattern(patterns, text, i) ==
    IF i > Len(patterns) THEN [ok |-> FALSE]
    ELSE LET match == Match(patterns[i], text)
             later == lastPattern(patterns, text, i + 1)
         IN IF later.ok THEN later
            ELSE IF match.ok THEN [ok |-> TRUE, index |-> i, match |-> match]
            ELSE later

\* the first pattern, at or after i, that matches the text (the for loop with
\* its break); ok is FALSE when none matches
RECURSIVE firstPattern(_, _, _)
firstPattern(patterns, text, i) ==
    IF i > Len(patterns) THEN [ok |-> FALSE]
    ELSE LET match == Match(patterns[i], text)
         IN IF match.ok THEN [ok |-> TRUE, index |-> i, match |-> match]
            ELSE firstPattern(patterns, text, i + 1)

\* the outcome of a call that threw
Thrown == [threw |-> TRUE]

\* a new analysis object holding the detected language
freshAnalysis(language) ==
    [threw |-> FALSE, isError |-> FALSE, language |-> language,
     errorType |-> null, errorMessage |-> null, file |-> null,
     line |-> null, column |-> null, localExplanation |-> null]

\* analyzeError after the language check: the patterns of fresh.language are
\* applied to the text
extracted(fresh, errorText_) ==
    IF fresh.language.s[1] \notin DOMAIN ERROR_PATTERNS
    THEN Thrown    \* langPatterns is undefined: langPatterns.patterns throws
    ELSE LET langPatterns == ERROR_PATTERNS[fresh.language.s[1]]
             hit == firstPattern(langPatterns.patterns, errorText_, 1)
             typed ==
                 IF hit.ok
                 THEN [fresh EXCEPT
                         !.isError = TRUE,
                         !.errorType = OrNull(Captured(hit.match, errorText_, 1)),
                         !.errorMessage =
                             IF Truthy(Captured(hit.match, errorText_, 2))
                             THEN Captured(hit.match, errorText_, 2)
                             ELSE OrNull(Captured(hit.match, errorText_, 1))]
                 ELSE fresh
             fileMatch == Match(langPatterns.fileLinePattern, errorText_)
             located ==
                 IF fileMatch.ok
                 THEN [typed EXCEPT
                         !.file = Captured(fileMatch, errorText_, 1),
                         !.line = Captured(fileMatch, errorText_, 2),
                         !.column = OrNull(Captured(fileMatch, errorText_, 3))]
                 ELSE typed
         IN [located EXCEPT
                 !.localExplanation = getLocalExplanation(located, errorText_)]

\* the no-language branch falling back on the javascript patterns
undetectedExtracts(fresh, errorText_) ==
    [extracted([fresh EXCEPT !.language = Lang("javascript")], errorText_)
        EXCEPT !.language = Lang("unknown")]

\* the no-language branch without the assignment of 'unknown'
undetectedStaysNull(fresh, errorText_) ==
    [fresh EXCEPT !.isError = detectError(errorText_)]

\* the no-language branch without its return
undetectedNoReturn(fresh, errorText_) ==
    extracted([fresh EXCEPT !.isError = detectError(errorText_),
                            !.language = Lang("unknown")], errorText_)

\* the no-language branch of analyzeError
undetected(fresh, errorText_) ==
    [fresh EXCEPT !.isError = detectError(errorText_),
                  !.language = Lang("unknown")]

analyzeError(errorText_) ==
    LET fresh == freshAnalysis(detectLanguage(errorText_))
    IN IF ~Truthy(fresh.language) THEN undetected(fresh, errorText_)
       ELSE extracted(fresh, errorText_)

-----------------------------------------------------------------------------
(* Diagnostic texts given to the ErrorListener: up to MaxLines lines, each *)
(* one of SampleLines, joined by newlines                                  *)

MaxLines == 2

SampleLines ==
    << <<"Type", "Error", ":", " ", "Cannot", " ", "read", " ", "propert", "ies", " ",
         "of", " ", "undefined", " ", "(", "reading", " ", "'", "map", "'", ")">>,
       <<" ", "at", " ", "app", ".", "js", ":", "12", ":", "5">>,
       <<"Type", "Error", ":", " ", "x", " ", "is", " ", "not", " ", "a", " ", "function">>,
       <<"Reference", "Error", ":", " ", "x", " ", "is", " ", "not", " ", "defined">>,
       <<"Error", ":", " ", "ENOENT", ":", " ", "x">>,
       <<"Uncaught", " ", "Syntax", "Error", ":", " ", "x">>,
       <<"Error", ":", " ", "Cannot", " ", "find", " ", "module", " ", "'", "x", "'">>,
       <<"Exception", " ", "in", " ", "thread", " ", "\"", "main", "\"", " ", "java", ".",
         "lang", ".", "NullPointer", "Exception", ":", " ", "x">>,
       <<" ", "at", " ", "com", ".", "example", ".", "Main", ".", "main", "(", "Main", ".",
         "java", ":", "10", ")">>,
       <<"Main", ".", "java", ":", "5", ":", " ", "error", ":", " ", "cannot", " ", "find",
         " ", "symbol">>,
       <<"Unhandled", " ", "exception", ".", " ", "System", ".", "NullReference",
         "Exception", ":", " ", "Object", " ", "reference", " ", "not", " ", "set">>,
       <<" ", "at", " ", "Program", ".", "Main", "(", ")", " ", "in", " ", "Program", ".",
         "cs", ":", "line", " ", "15">>,
       <<"Program", ".", "cs", "(", "10", ",", "15", ")", ":", " ", "error", " ", "CS",
         "0103", ":", " ", "x">>,
       <<"Server", " ", "started", " ", "on", " ", "port", " ", "3000">>,
       <<"Some", " ", "generic", " ", "error", " ", "happened">>,
       <<" ", "at", " ", "app", ".", "ts", ":", "12", ":", "5">>,
       <<"Type", "Error", ":", " ", "Cannot", " ", "read", " ", "propert", "y", " ",
         "'", "x", "'", " ", "of", " ", "undefined">>,
       <<>> >>

\* lines[1] + '\n' + lines[2] + ...
RECURSIVE JoinLines(_)
JoinLines(lines) ==
    IF Len(lines) = 0 THEN <<>>
    ELSE IF Len(lines) = 1 THEN lines[1]
    ELSE lines[1] \o <<"\n">> \o JoinLines(Tail(lines))

Texts ==
    UNION { { JoinLines([i \in 1..n |-> SampleLines[pick[i]]]) :
                pick \in [1..n -> 1..Len(SampleLines)] } : n \in 1..MaxLines }

\* the analysis objects handed to getLocalExplanation directly
DirectLanguages == {null, Lang("unknown"), Lang("javascript"), Lang("java"), Lang("csharp")}
DirectErrorTypes == {null, Str(<<"Type", "Error">>), Str(<<"java", ".", "lang", ".", "NullPointer", "Exception">>)}

-----------------------------------------------------------------------------
(* AIService.parseResponse, on strings of characters *)

UpperCase == {"W", "H", "A", "T", "Y", "F", "I", "X", "E", "M", "P", "L"}

LowerCase == {"w", "h", "a", "t", "y", "f", "i", "x", "e", "m", "p", "l",
              "b", "c", "d", "z"}

WhiteSpace == {" ", "\n"}

\* the grave accent U+0060, which cannot be written inside a TLA+ string
Backtick == "U+0060"

Characters == UpperCase \cup LowerCase \cup WhiteSpace \cup {":", ".", "!", Backtick}

\* toLowerCase of one character
ToLower(ch) ==
    CASE ch = "W" -> "w" [] ch = "H" -> "h" [] ch = "A" -> "a" [] ch = "T" -> "t"
      [] ch = "Y" -> "y" [] ch = "F" -> "f" [] ch = "I" -> "i" [] ch = "X" -> "x"
      [] ch = "E" -> "e" [] ch = "M" -> "m" [] ch = "P" -> "p" [] ch = "L" -> "l"
      [] OTHER -> ch

\* the literal text lit under the i flag
LitIgnoreCase(lit) ==
    [i \in 1..Len(lit) |-> One({ch \in Characters : ToLower(ch) = ToLower(lit[i])})]

WHAT == <<"W", "H", "A", "T", ":">>
WHY == <<"W", "H", "Y", ":">>
FIX == <<"F", "I", "X", ":">>
EXAMPLE == <<"E", "X", "A", "M", "P", "L", "E", ":">>

\* the section pattern with only $ in its lookahead
sectionPatternToEnd(marker, others) ==
    LitIgnoreCase(marker) \o Star(<<One(WhiteSpace)>>)
        \o Group(1, LazyPlus(<<One(Characters)>>)) \o Ahead(End)

\* /MARKER:\s*(.+?)(?=OTHER1:|OTHER2:|OTHER3:|$)/is
sectionPattern(marker, others) ==
    LitIgnoreCase(marker) \o Star(<<One(WhiteSpace)>>)
        \o Group(1, LazyPlus(<<One(Characters)>>))
        \o Ahead(Alt(<<LitIgnoreCase(others[1]), LitIgnoreCase(others[2]),
                       LitIgnoreCase(others[3]), End>>))

whatPattern == sectionPattern(WHAT, <<WHY, FIX, EXAMPLE>>)
whyPattern == sectionPattern(WHY, <<WHAT, FIX, EXAMPLE>>)
fixPattern == sectionPattern(FIX, <<WHAT, WHY, EXAMPLE>>)
examplePattern == sectionPattern(EXAMPLE, <<WHAT, WHY, FIX>>)

\* /[.!]\s+/
sentenceBreak == <<One({".", "!"})>> \o Plus(<<One(WhiteSpace)>>)

\* the code fence pattern: three grave accents, [\w]*, \n?, ([\s\S]+?), three
\* grave accents
codePattern ==
    Lit(<<Backtick, Backtick, Backtick>>) \o Star(<<One(UpperCase \cup LowerCase)>>)
        \o Opt(Lit(<<"\n">>)) \o Group(1, LazyPlus(<<One(Characters)>>))
        \o Lit(<<Backtick, Backtick, Backtick>>)

\* str.trim()
RECURSIVE Trim(_)
Trim(str) ==
    IF Len(str) = 0 THEN str
    ELSE IF Head(str) \in WhiteSpace THEN Trim(Tail(str))
    ELSE IF str[Len(str)] \in WhiteSpace THEN Trim(SubSeq(str, 1, Len(str) - 1))
    ELSE str

\* str.split(re) for a pattern that takes at least one character: the pieces of
\* str from position p on, q being the position the next separator is tried at
RECURSIVE SplitFrom(_, _, _, _)
SplitFrom(re, str, p, q) ==
    IF q > Len(str) THEN <<SubSeq(str, p, Len(str))>>
    ELSE LET m == Run(re, str, q, NoCaptures)
         IN IF m.ok THEN <<SubSeq(str, p, q - 1)>> \o SplitFrom(re, str, m.e, m.e)
            ELSE SplitFrom(re, str, p, q + 1)

Split(re, str) == SplitFrom(re, str, 1, 1)

\* strs.join(sep)
RECURSIVE Join(_, _)
Join(strs, sep) ==
    IF Len(strs) = 0 THEN <<>>
    ELSE IF Len(strs) = 1 THEN strs[1]
    ELSE strs[1] \o sep \o Join(Tail(strs), sep)

\* match[1].trim() of a section pattern: null when the pattern does not match,
\* Thrown when group 1 took no part in the match (undefined.trim())
sectionOf(pattern, response_) ==
    LET match == Match(pattern, response_)
    IN IF ~match.ok THEN null
       ELSE IF Captured(match, response_, 1) = null THEN Thrown
       ELSE Str(Trim(Captured(match, response_, 1).s))

\* the split without the filter
sentencesUnfiltered(response_) == Split(sentenceBreak, response_)

\* response.split(/[.!]\s+/).filter(s => s.trim())
sentencesOf(response_) ==
    SelectSeq(Split(sentenceBreak, response_), LAMBDA str : Len(Trim(str)) > 0)

\* the fallback condition looking at what only
needsFallbackWhatOnly(marked) == ~Truthy(marked.what)

\* a fallback condition that never holds
needsFallbackNever(marked) == FALSE

\* !result.what && !result.why && !result.fix
needsFallback(marked) ==
    ~Truthy(marked.what) /\ ~Truthy(marked.why) /\ ~Truthy(marked.fix)

parseResponse(response_) ==
    LET what == sectionOf(whatPattern, response_)
        why == sectionOf(whyPattern, response_)
        fix == sectionOf(fixPattern, response_)
        example == sectionOf(examplePattern, response_)
        marked == [threw |-> FALSE, what |-> what, why |-> why, fix |-> fix,
                   example |-> example, raw |-> response_]
        sentences == sentencesOf(response_)
        salvaged ==
            IF needsFallback(marked)
            THEN [marked EXCEPT
                    !.what = IF Len(sentences) >= 1
                             THEN Str(Trim(sentences[1]) \o <<".">>) ELSE @,
                    !.why = IF Len(sentences) >= 2
                            THEN Str(Trim(sentences[2]) \o <<".">>) ELSE @,
                    !.fix = IF Len(sentences) >= 3
                            THEN Str(Trim(Join(SubSeq(sentences, 3, Len(sentences)),
                                               <<".", " ">>)))
                            ELSE @]
            ELSE marked
        codeMatch == Match(codePattern, response_)
    IN IF Thrown \in {what, why, fix, example} THEN Thrown
       ELSE IF Truthy(salvaged.example) \/ ~codeMatch.ok THEN salvaged
       ELSE IF Captured(codeMatch, response_, 1) = null THEN Thrown
       ELSE [salvaged EXCEPT
               !.example = Str(Trim(Captured(codeMatch, response_, 1).s))]

-----------------------------------------------------------------------------
(* Answers of the reasoning service: up to MaxParts parts, each one of     *)
(* SampleParts, joined by newlines                                         *)

MaxParts == 4

SampleParts ==
    << WHAT \o <<" ", "a">>,
       WHY \o <<" ", "b">>,
       FIX \o <<" ", "c">>,
       EXAMPLE \o <<" ", "d">>,
       WHAT \o <<" ">>,
       <<"x", ".", " ", "y">>,
       <<Backtick, Backtick, Backtick, "x", "\n", "y", Backtick, Backtick, Backtick>>,
       <<>>,
       EXAMPLE \o <<" ">> >>

PartLists == UNION { [1..n -> 1..Len(SampleParts)] : n \in 0..MaxParts }

ResponseOf(parts) == Join([i \in 1..Len(parts) |-> SampleParts[parts[i]]], <<"\n">>)

-----------------------------------------------------------------------------
(* sanitizeError of the CLI, on strings of characters *)

\* CONFIG.maxErrorLength
maxErrorLength == 2000

StderrLetters == {"A", "C", "D", "E", "R", "T", "U",
                  "a", "b", "c", "d", "e", "h", "i", "k", "m", "n", "o", "p", "r", "s",
                  "t", "u", "v", "w", "x", "y"}

Quotes == {"'", "\""}

StderrCharacters ==
    StderrLetters \cup WhiteSpace \cup Quotes
        \cup {"\\", "/", ":", "=", "[", "]", "(", ")", ".", "_", "-"}

\* toLowerCase of one character of StderrCharacters
LowerOf(ch) ==
    CASE ch = "A" -> "a" [] ch = "C" -> "c" [] ch = "D" -> "d" [] ch = "E" -> "e"
      [] ch = "R" -> "r" [] ch = "T" -> "t" [] ch = "U" -> "u"
      [] OTHER -> ch

\* the literal text lit under the i flag, on stderr text
Keyword(lit) ==
    [i \in 1..Len(lit) |-> One({ch \in StderrCharacters : LowerOf(ch) = LowerOf(lit[i])})]

\* /[A-Za-z]:\\(?:[^\\/:*?"<>|\r\n]+\\)*/g
windowsPathPattern ==
    <<One(StderrLetters)>> \o Lit(<<":", "\\">>)
        \o Star(Plus(<<One(StderrCharacters
                            \ {"\\", "/", ":", "*", "?", "\"", "<", ">", "|", "\r", "\n"})>>)
                  \o Lit(<<"\\">>))

\* /\/(?:home|Users|var|usr|opt)\/[^\s:]+/g
unixPathPattern ==
    Lit(<<"/">>)
        \o Alt(<<Lit(<<"h", "o", "m", "e">>), Lit(<<"U", "s", "e", "r", "s">>),
                 Lit(<<"v", "a", "r">>), Lit(<<"u", "s", "r">>), Lit(<<"o", "p", "t">>)>>)
        \o Lit(<<"/">>)
        \o Plus(<<One(StderrCharacters \ (WhiteSpace \cup {":"}))>>)

\* /(?:api[_-]?key|secret|password|token)\s*[:=]\s*['"]?[^'"\s]+['"]?/gi
secretPattern ==
    Alt(<<Keyword(<<"a", "p", "i">>) \o Opt(<<One({"_", "-"})>>)
              \o Keyword(<<"k", "e", "y">>),
          Keyword(<<"s", "e", "c", "r", "e", "t">>),
          Keyword(<<"p", "a", "s", "s", "w", "o", "r", "d">>),
          Keyword(<<"t", "o", "k", "e", "n">>)>>)
        \o Star(<<One(WhiteSpace)>>) \o <<One({":", "="})>> \o Star(<<One(WhiteSpace)>>)
        \o Opt(<<One(Quotes)>>)
        \o Plus(<<One(StderrCharacters \ (Quotes \cup WhiteSpace))>>)
        \o Opt(<<One(Quotes)>>)

\* '[path]\\', '[path]' and '[REDACTED]'
pathAndSeparator == <<"[", "p", "a", "t", "h", "]", "\\">>
pathPlaceholder == <<"[", "p", "a", "t", "h", "]">>
redactedPlaceholder == <<"[", "R", "E", "D", "A", "C", "T", "E", "D", "]">>

\* '\n... (truncated)'
truncationMarker ==
    <<"\n", ".", ".", ".", " ", "(", "t", "r", "u", "n", "c", "a", "t", "e", "d", ")">>

\* The leftmost match of re in str at or after position p, as SearchFrom finds
\* it, without one level of recursion per character of a long text
LeftmostFrom(re, str, p) ==
    LET starts == {q \in p..(Len(str) + 1) : Run(re, str, q, NoCaptures).ok}
    IN IF starts = {} THEN NoMatch
       ELSE LET b == CHOOSE q \in starts : \A o \in starts : q <= o
            IN [ok |-> TRUE, b |-> b, e |-> Run(re, str, b, NoCaptures).e]

\* str.replace(re, replacement) under the g flag, from position p on, for a
\* pattern that takes at least one character and a replacement without $
RECURSIVE ReplaceFrom(_, _, _, _)
ReplaceFrom(re, str, p, replacement) ==
    LET m == LeftmostFrom(re, str, p)
    IN IF ~m.ok THEN SubSeq(str, p, Len(str))
       ELSE SubSeq(str, p, m.b - 1) \o replacement
                \o ReplaceFrom(re, str, m.e, replacement)

ReplaceAll(re, str, replacement) == ReplaceFrom(re, str, 1, replacement)

sanitizeError(errorText_) ==
    LET noWindowsPaths == ReplaceAll(windowsPathPattern, errorText_, pathAndSeparator)
        noUnixPaths == ReplaceAll(unixPathPattern, noWindowsPaths, pathPlaceholder)
        noSecrets == ReplaceAll(secretPattern, noUnixPaths, redactedPlaceholder)
    IN IF Len(noSecrets) > maxErrorLength
       THEN SubSeq(noSecrets, 1, maxErrorLength) \o truncationMarker
       ELSE noSecrets

-----------------------------------------------------------------------------
(* Captured stderr given to sanitizeError: filler, then up to MaxPieces    *)
(* pieces out of SamplePieces.  The filler is either absent or leaves      *)
(* MaxSlack characters before maxErrorLength.  TwinPieces holds for each   *)
(* piece the same piece with another path or another secret value          *)

MaxPieces == 2

MaxSlack == 6

SamplePieces ==
    << <<"C", ":", "\\", "a", "\\", "b">>,
       <<"/", "h", "o", "m", "e", "/", "a">>,
       <<"/", "e", "t", "c", "/", "a">>,
       <<"t", "o", "k", "e", "n", "=", "x">>,
       <<"T", "o", "k", "e", "n", ":">>,
       <<" ">> >>

TwinPieces ==
    << <<"C", ":", "\\", "x", "\\", "b">>,
       <<"/", "h", "o", "m", "e", "/", "x">>,
       <<"/", "e", "t", "c", "/", "x">>,
       <<"t", "o", "k", "e", "n", "=", "y">>,
       <<"T", "o", "k", "e", "n", ":">>,
       <<" ">> >>

PieceLists == UNION { [1..n -> 1..Len(SamplePieces)] : n \in 0..MaxPieces }

FillerLengths == {0, maxErrorLength - MaxSlack}

Filler(n) == [i \in 1..n |-> "."]

StderrOf(n, list) ==
    Filler(n) \o Join([k \in 1..Len(list) |-> SamplePieces[list[k]]], <<>>)

\* the same text with the piece at position i taken from TwinPieces (i = 0: none)
TwinOf(n, list, i) ==
    Filler(n) \o Join([k \in 1..Len(list) |->
                          IF k = i THEN TwinPieces[list[k]] ELSE SamplePieces[list[k]]],
                      <<>>)

-----------------------------------------------------------------------------
(* The detector of the VS Code extension: the TypeScript port of the       *)
(* ErrorListener, with the same patterns and its own COMMON_ERRORS, a      *)
(* module-level object whose explanation objects are handed out by         *)
(* reference.  isOffline is FALSE for an object without that property; an  *)
(* example that spans several lines is given as one line                   *)

Entry(what, why, fix, example) ==
    [what |-> what, why |-> why, fix |-> fix, example |-> example, isOffline |-> FALSE]

COMMON_ERRORS_TS ==
    [javascript |-> <<
        [key |-> <<"Type", "Error">>, subErrors |-> <<
            [key |-> <<"Cannot", " ", "read", " ", "propert">>,
             explanation |-> Entry(
                "You tried to access a property on something that is undefined or null.",
                "The variable you're accessing doesn't exist or hasn't been assigned a value yet.",
                "Add a null check before accessing properties.",
                Str(<<"if (data && data.users) { data.users.map(...) }">>))],
            [key |-> <<"is", " ", "not", " ", "a", " ", "function">>,
             explanation |-> Entry(
                "You tried to call something as a function, but it's not a function.",
                "The variable might be undefined, or you imported/accessed the wrong thing.",
                "Check that you're calling the right function and it's properly imported.",
                Str(<<"if (typeof myFunc === 'function') { myFunc(); }">>))] >>],
        [key |-> <<"Reference", "Error">>, subErrors |-> <<
            [key |-> <<"is", " ", "not", " ", "defined">>,
             explanation |-> Entry(
                "You're using a variable that doesn't exist in the current scope.",
                "Either the variable was never declared, or it's spelled wrong, or it's out of scope.",
                "Make sure the variable is declared (const, let, var) before using it.",
                Str(<<"const myVar = 'hello'; console.log(myVar);">>))] >>],
        [key |-> <<"Syntax", "Error">>, subErrors |-> <<
            [key |-> <<"default">>,
             explanation |-> Entry(
                "Your code has a syntax mistake that JavaScript cannot understand.",
                "Missing brackets, quotes, semicolons, or other syntax issues.",
                "Check the line number mentioned and look for missing or extra characters.",
                null)] >>],
        [key |-> <<"ENOENT">>, subErrors |-> <<
            [key |-> <<"default">>,
             explanation |-> Entry(
                "A file or directory you tried to access doesn't exist.",
                "The path is wrong, or the file was deleted/moved.",
                "Check that the file path is correct and the file exists.",
                null)] >> ] >>,
     java |-> <<
        [key |-> <<"NullPointer", "Exception">>, subErrors |-> <<
            [key |-> <<"default">>,
             explanation |-> Entry(
                "You tried to use an object that is null (doesn't exist).",
                "A variable wasn't initialized, or a method returned null.",
                "Add null checks before using objects.",
                Str(<<"if (user != null) { user.getName(); }">>))] >>],
        [key |-> <<"ArrayIndexOutOfBounds", "Exception">>, subErrors |-> <<
            [key |-> <<"default">>,
             explanation |-> Entry(
                "You tried to access an array index that doesn't exist.",
                "Arrays are 0-indexed, so an array of size 5 has indices 0-4.",
                "Check array length before accessing an index.",
                Str(<<"if (index >= 0 && index < arr.length) { arr[index] = 10; }">>))] >> ] >>,
     csharp |-> <<
        [key |-> <<"NullReference", "Exception">>, subErrors |-> <<
            [key |-> <<"default">>,
             explanation |-> Entry(
                "You tried to use an object that is null.",
                "A variable wasn't initialized, or a method returned null.",
                "Add null checks or use null-conditional operators.",
                Str(<<"var name = user?.Name;">>))] >>],
        [key |-> <<"CS", "0103">>, subErrors |-> <<
            [key |-> <<"default">>,
             explanation |-> Entry(
                "The name you're using doesn't exist in the current context.",
                "Variable not declared, typo, or missing using statement.",
                "Check variable spelling and add any missing using statements.",
                null)] >> ] >> ]

\* a reference to the explanation object of sub-pattern sub of entry entry of
\* language
Ref(language, entry, sub) ==
    [isNull |-> FALSE, language |-> language, entry |-> entry, sub |-> sub]

\* the position of the first sub-pattern, at or after j, that is 'default' or
\* occurs in the text (the inner for loop); 0 when none does
RECURSIVE subPatternAt(_, _, _)
subPatternAt(subErrors, text, j) ==
    IF j > Len(subErrors) THEN 0
    ELSE IF subErrors[j].key = <<"default">> \/ Includes(text, subErrors[j].key)
         THEN j
         ELSE subPatternAt(subErrors, text, j + 1)

\* the position of subErrors['default']; 0 when the entry has none
defaultAt(subErrors) ==
    IF \E j \in 1..Len(subErrors) : subErrors[j].key = <<"default">>
    THEN CHOOSE j \in 1..Len(subErrors) : subErrors[j].key = <<"default">>
    ELSE 0

\* the outer for loop of the detector's getLocalExplanation from entry i on:
\* the object it returns, by reference
RECURSIVE explanationAt(_, _, _, _, _)
explanationAt(kb, language, errorType, text, i) ==
    IF i > Len(kb[language]) THEN null
    ELSE LET entry == kb[language][i]
             found == subPatternAt(entry.subErrors, text, 1)
         IN IF Includes(text, entry.key)
               \/ (~errorType.isNull /\ Includes(errorType.s, entry.key))
            THEN IF found # 0 THEN Ref(language, i, found)
                 ELSE IF defaultAt(entry.subErrors) # 0
                      THEN Ref(language, i, defaultAt(entry.subErrors))
                      ELSE explanationAt(kb, language, errorType, text, i + 1)
            ELSE explanationAt(kb, language, errorType, text, i + 1)

\* ErrorDetector.getLocalExplanation on the knowledge base kb
localExplanationRef(kb, analysis_, text) ==
    IF ~Truthy(analysis_.language) \/ analysis_.language.s[1] \notin DOMAIN kb
    THEN null
    ELSE explanationAt(kb, analysis_.language.s[1], analysis_.errorType, text, 1)

\* the object a reference points to, as it is in kb now
Deref(kb, ref) ==
    IF ref = null THEN null
    ELSE [isNull |-> FALSE,
          o |-> kb[ref.language][ref.entry].subErrors[ref.sub].explanation]

\* the fields the extension reads of the analysis listened of text, with the
\* local explanation looked up in the knowledge base kb
detectorFields(kb, listened, text) ==
    [isError |-> listened.isError, language |-> listened.language,
     errorType |-> listened.errorType,
     localExplanation |-> Deref(kb, localExplanationRef(kb, listened, text))]

\* ErrorDetector.analyzeError on the knowledge base kb
detectorAnalysis(kb, text) == detectorFields(kb, analyzeError(text), text)

\* explanation.isOffline = true on the object ref points to
markOffline(kb, ref) ==
    [kb EXCEPT ![ref.language][ref.entry].subErrors[ref.sub].explanation.isOffline = TRUE]

\* the object literal explainError makes when nothing is found
genericExplanation ==
    [what |-> "An error occurred in your code.",
     why |-> "Unable to determine the exact cause.",
     fix |-> "Check the error message above for details.",
     example |-> null, isOffline |-> TRUE]

\* an explanation parsed from an answer of the reasoning service
serviceExplanation ==
    [what |-> "a", why |-> "b", fix |-> "c", example |-> null, isOffline |-> FALSE]

\* the number of explainError calls of a run of the extension
MaxRequests == 2

\* the status bar item as activate makes it: its text and whether it has the
\* error background
createdStatusBarItem == [text |-> "$(bug) Error Buddy", errorBackground |-> FALSE]

\* updateStatusBar(state) on the item
updateStatusBar(item, state) ==
    CASE state = "ready" -> [text |-> "$(bug) Error Buddy", errorBackground |-> FALSE]
      [] state = "loading" -> [item EXCEPT !.text = "$(loading~spin) Analyzing..."]
      [] state = "error" -> [text |-> "$(bug) Error Buddy", errorBackground |-> TRUE]
      [] state = "disabled" ->
            [text |-> "$(bug) Error Buddy (off)", errorBackground |-> FALSE]

\* the state that toggleAutoExplain and updateConfiguration show
stateOf(enabled) == IF enabled THEN "ready" ELSE "disabled"

\* what the terminal of the extension prints
TerminalOutputs ==
    { JoinLines(<<SampleLines[1], SampleLines[2]>>), SampleLines[14],
      SampleLines[15] }

-----------------------------------------------------------------------------
(* runCommand of the CLI: the wrapped command is spawned, its stderr is     *)
(* forwarded, buffered and watched for errors, and when it closes the      *)
(* buffered text is explained                                              *)

\* a number value n
Number(n) == [isNull |-> FALSE, n |-> n]

\* --offline and --no-ai (options.ai is false under --no-ai)
Options == [offline : BOOLEAN, ai : BOOLEAN]

\* the test before checkConnection without the offline flag
connectsUnlessNoAI(options_) == options_.ai

\* !options.offline && options.ai !== false
connects(options_) == ~options_.offline /\ options_.ai

\* ollamaAvailable && options.ai !== false
explainsWithAI(available, options_) == available /\ options_.ai

\* what the wrapped command writes to stderr in all
ChildOutputs ==
    { <<>>, <<" ", "\n">>, SampleLines[14], SampleLines[15], SampleLines[8],
      JoinLines(<<SampleLines[1], SampleLines[2]>>),
      <<"unable", " ", "to", " ", "x">> }

\* the exit codes of the wrapped command
ExitCodes == {0, 1, 2}

\* how a child process ends: by exiting with a code, or killed by a signal; the
\* close event carries the code, or null for a child killed by a signal
Endings ==
    { [code |-> Number(c), signal |-> null] : c \in ExitCodes }
        \cup { [code |-> null, signal |-> Str(<<"SIGKILL">>)] }

\* the 'exit' event of a child: it has ended, its streams may still hold output
exitEvent(pending_) == TRUE

\* the 'close' event of a child: it has ended and its streams are closed, so
\* nothing is left to be read from stderr
closeEvent(pending_) == pending_ = <<>>

\* process.exit(code): null leaves the exit code at its default, 0
processExit(code) == IF code = null THEN Number(0) ELSE code

\* stderrBuffer.trim() is not empty
NotBlank(text) == \E i \in 1..Len(text) : text[i] \notin Spaces

\* formatter.printPatternExplanation(analysis): the block it prints
patternBlock(analysis_) ==
    IF analysis_.localExplanation = null THEN "generic help" ELSE "pattern explanation"

\* a catch block of explainWithAI that prints the notice only
caughtWithNotice(analysis_) == <<"AI explanation failed">>

\* the catch block of explainWithAI: what it prints
caught(analysis_) == <<"AI explanation failed", patternBlock(analysis_)>>

-----------------------------------------------------------------------------
(* AIService.checkConnection and AIService.explainError: a request guarded *)
(* by an abort timer.  A name of a model is a sequence of symbols, such as *)
(* <<"qwen2.5", ":", "0.5b">>; a message is a sequence of strings          *)

\* the number of calls of the service in a run
MaxCalls == 2

\* the models a service is made for
ConfiguredModels == {<<"llama3.2">>, <<"qwen2.5", ":", "0.5b">>}

\* new Error(message), and an error of another name raised by fetch or by the
\* reading of a body
Error(message) == [name |-> "Error", message |-> message]
Raised(name) == [name |-> name, message |-> <<name>>]

\* how fetch settles when it is not aborted: with a response, or with one of
\* these errors
FetchErrors == {Raised("TypeError"), Raised("TimeoutError"), Raised("AbortError")}
Responses == {[ok |-> TRUE, status |-> "200"], [ok |-> FALSE, status |-> "500"]}

\* the bodies of /api/tags: not JSON, or JSON data; models is null when the
\* data has no such property, a name is null when an entry has none
Unreadable == [readable |-> FALSE]
Json(data) == [readable |-> TRUE, data |-> data]
Models(names) == [isNull |-> FALSE, models |-> [isNull |-> FALSE, list |-> names]]
TagsBodies ==
    { Unreadable, Json(null), Json([isNull |-> FALSE, models |-> null]),
      Json(Models(<<>>)),
      Json(Models(<<Str(<<"llama3.2", ":", "latest">>)>>)),
      Json(Models(<<Str(<<"mistral", ":", "latest">>),
                    Str(<<"qwen2.5", ":", "0.5b">>)>>)),
      Json(Models(<<Str(<<"mistral", ":", "latest">>)>>)),
      Json(Models(<<null>>)),
      Json(Models(<<Str(<<"llama3.2", ":", "latest">>), null>>)) }

\* the bodies of /api/generate: error and response are null when the data has
\* no such property
Generated(error, response_) ==
    [isNull |-> FALSE, error |-> error, response |-> response_]
GenerateBodies ==
    { Unreadable, Json(null),
      Json(Generated(Str(<<"out", " ", "of", " ", "memory">>), null)),
      Json(Generated(Str(<<"model", " ", "not", " ", "found">>), null)),
      Json(Generated(null, null)),
      Json(Generated(null, Str(ResponseOf(<<1, 2, 3>>)))),
      Json(Generated(null, Str(ResponseOf(<<6>>)))) }

\* the bodies of a response that is not ok, read as text
TextBodies ==
    { Unreadable, Json(<<"out", " ", "of", " ", "memory">>),
      Json(<<"internal", " ", "error">>) }

\* what a block of code ends with: a value it returns or an error it throws
Returned(value) == [kind |-> "resolved", value |-> value]
Threw(error) == [kind |-> "rejected", error |-> error]

\* this.model.split(':')[0]
RECURSIVE BaseName(_)
BaseName(name) ==
    IF Len(name) = 0 \/ Head(name) = ":" THEN <<>>
    ELSE <<Head(name)>> \o BaseName(Tail(name))

\* name.startsWith(prefix)
StartsWith(name, prefix) ==
    Len(prefix) <= Len(name) /\ SubSeq(name, 1, Len(prefix)) = prefix

\* models.some(m => m.name.startsWith(modelBaseName)) from entry i on: an entry
\* without a name throws
RECURSIVE someStartsWith(_, _, _)
someStartsWith(names, base, i) ==
    IF i > Len(names) THEN Returned(FALSE)
    ELSE IF names[i] = null THEN Threw(Raised("TypeError"))
    ELSE IF StartsWith(names[i].s, base) THEN Returned(TRUE)
    ELSE someStartsWith(names, base, i + 1)

\* the try block of checkConnection after the body was read: what it returns
\* or throws, and this.model afterwards
tagsRead(body, model_) ==
    IF ~body.readable THEN [end |-> Threw(Raised("SyntaxError")), model |-> model_]
    ELSE IF body.data = null THEN [end |-> Threw(Raised("TypeError")), model |-> model_]
    ELSE LET names == IF body.data.models = null THEN <<>> ELSE body.data.models.list
             hasModel == someStartsWith(names, BaseName(model_), 1)
         IN IF hasModel.kind = "rejected" THEN [end |-> hasModel, model |-> model_]
            ELSE [end |-> Returned(TRUE),
                  model |-> IF ~hasModel.value /\ Len(names) > 0
                            THEN names[1].s ELSE model_]

\* the catch block of checkConnection left out
uncaught(end) == end

\* the catch block of checkConnection: return false
caughtAsFalse(end) == IF end.kind = "rejected" THEN Returned(FALSE) ELSE end

timedOut == <<"AI explanation timed out. Try a smaller model.">>

\* the catch block of explainError looking for TimeoutError only
translatedTimeoutOnly(end) ==
    IF end.kind = "rejected" /\ end.error.name = "TimeoutError"
    THEN Threw(Error(timedOut))
    ELSE end

\* the catch block of explainError
translated(end) ==
    IF end.kind = "rejected" /\ end.error.name \in {"TimeoutError", "AbortError"}
    THEN Threw(Error(timedOut))
    ELSE end

\* the try block of explainError after the text of a response that is not ok
\* was read
textRead(body, status) ==
    IF ~body.readable THEN Threw(Raised("AbortError"))
    ELSE IF Includes(body.data, <<"memory">>)
         THEN Threw(Error(<<"Not enough RAM. Try: errbuddy --model qwen2.5:0.5b">>))
         ELSE Threw(Error(<<"Ollama returned ", status, ": ">> \o body.data))

\* the try block of explainError after the body of an ok response was read
generateRead(body) ==
    IF ~body.readable THEN Threw(Raised("SyntaxError"))
    ELSE IF body.data = null THEN Threw(Raised("TypeError"))
    ELSE IF Truthy(body.data.error)
         THEN IF Includes(body.data.error.s, <<"memory">>)
              THEN Threw(Error(<<"Not enough RAM. Try a smaller model: --model qwen2.5:0.5b">>))
              ELSE Threw(Error(body.data.error.s))
    ELSE IF body.data.response = null THEN Threw(Raised("TypeError"))
    ELSE LET parsed == parseResponse(body.data.response.s)
         IN IF parsed = Thrown THEN Threw(Raised("TypeError")) ELSE Returned(parsed)

-----------------------------------------------------------------------------
(* HistoryService with its JSON file: this.data holds the list of errors    *)
(* and the next id.  Of an entry the id and the helpful flag are kept       *)

\* the number of entries that saveError keeps
historyLimit == 500

\* the number of entries saved beyond historyLimit
MaxOverflow == 2

\* the ids given to markHelpful: of early entries, and one that no entry has
MarkedIds == {0, 1, 2}

\* true or false as a value that may also be null
Bool(b) == [isNull |-> FALSE, b |-> b]

\* the data of a history without entries
emptyHistory == [errors |-> <<>>, nextId |-> 1]

\* the entry that saveError builds
newEntry(id) == [id |-> id, helpful |-> null]

\* errors.slice(0, 500)
firstEntries(errors) ==
    IF Len(errors) > historyLimit THEN SubSeq(errors, 1, historyLimit) ELSE errors

\* the list after the push: errors.slice(-500) when it is longer than 500
lastEntries(errors) ==
    IF Len(errors) > historyLimit
    THEN SubSeq(errors, Len(errors) - historyLimit + 1, Len(errors))
    ELSE errors

\* errors.find(e => e.id === id): the index of the first entry with that id, 0
\* when there is none
findEntry(errors, id) ==
    IF \E i \in 1..Len(errors) : errors[i].id = id
    THEN CHOOSE i \in 1..Len(errors) :
            /\ errors[i].id = id
            /\ \A j \in 1..(i - 1) : errors[j].id # id
    ELSE 0

-----------------------------------------------------------------------------
(* The components at rest: nothing given to them, nothing computed *)

ListenerIdle ==
    /\ errorText = <<>>
    /\ analysis = null
    /\ ret = null

ParserIdle ==
    /\ responseParts = <<>>
    /\ response = <<>>
    /\ result = null

SanitizerIdle ==
    /\ stderrText = <<>>
    /\ twinText = <<>>
    /\ sanitized = null
    /\ resanitized = null
    /\ twinSanitized = null

ExtensionIdle ==
    /\ knowledge = COMMON_ERRORS_TS
    /\ requests = EmptyBag
    /\ shown = null
    /\ explained = 0
    /\ autoExplainEnabled = TRUE
    /\ statusBarItem = createdStatusBarItem

CommandIdle ==
    /\ options = [offline |-> FALSE, ai |-> TRUE]
    /\ at = "idle"
    /\ ollamaAvailable = FALSE
    /\ pending = <<>>
    /\ stderrBuffer = <<>>
    /\ errorDetected = FALSE
    /\ printed = <<>>
    /\ calls = <<>>
    /\ childStatus = null
    /\ exitStatus = null

ServiceIdle ==
    /\ model = <<"llama3.2">>
    /\ method = "none"
    /\ step = "idle"
    /\ timer = "unset"
    /\ reply = null
    /\ raised = null
    /\ outcome = null
    /\ served = 0

HistoryIdle ==
    /\ history = emptyHistory
    /\ historyFile = null
    /\ savedIds = <<>>
    /\ returned = null

-----------------------------------------------------------------------------
(* The ErrorListener as a state machine: a text arrives, one method is     *)
(* called on it                                                            *)

InitListener ==
    /\ errorText \in Texts
    /\ analysis = null
    /\ ret = null
    /\ responseParts = <<>>
    /\ response = <<>>
    /\ result = null
    /\ pc = "idle"
    /\ SanitizerIdle
    /\ ExtensionIdle
    /\ CommandIdle
    /\ ServiceIdle
    /\ HistoryIdle

DetectError ==
    /\ pc = "idle"
    /\ ret' = detectError(errorText)
    /\ pc' = "detectError"
    /\ UNCHANGED <<errorText, analysis, responseParts, response, result, sanitizerVars, extensionVars, commandVars, serviceVars, historyVars>>

DetectLanguage ==
    /\ pc = "idle"
    /\ ret' = detectLanguage(errorText)
    /\ pc' = "detectLanguage"
    /\ UNCHANGED <<errorText, analysis, responseParts, response, result, sanitizerVars, extensionVars, commandVars, serviceVars, historyVars>>

AnalyzeError ==
    /\ pc = "idle"
    /\ analysis' = analyzeError(errorText)
    /\ pc' = "analyzeError"
    /\ UNCHANGED <<errorText, ret, responseParts, response, result, sanitizerVars, extensionVars, commandVars, serviceVars, historyVars>>

GetLocalExplanation ==
    /\ pc = "idle"
    /\ \E language \in DirectLanguages, errorType \in DirectErrorTypes :
          /\ analysis' = [language |-> language, errorType |-> errorType]
          /\ ret' = getLocalExplanation(analysis', errorText)
    /\ pc' = "getLocalExplanation"
    /\ UNCHANGED <<errorText, responseParts, response, result, sanitizerVars, extensionVars, commandVars, serviceVars, historyVars>>

NextListener == DetectError \/ DetectLanguage \/ AnalyzeError \/ GetLocalExplanation

SpecListener == InitListener /\ [][NextListener]_vars

-----------------------------------------------------------------------------
(* The parser as a state machine: an answer arrives and is parsed         *)

InitParser ==
    /\ errorText = <<>>
    /\ analysis = null
    /\ ret = null
    /\ responseParts \in PartLists
    /\ response = ResponseOf(responseParts)
    /\ result = null
    /\ pc = "idle"
    /\ SanitizerIdle
    /\ ExtensionIdle
    /\ CommandIdle
    /\ ServiceIdle
    /\ HistoryIdle

ParseResponse ==
    /\ pc = "idle"
    /\ result' = parseResponse(response)
    /\ pc' = "parseResponse"
    /\ UNCHANGED <<errorText, analysis, ret, responseParts, response, sanitizerVars, extensionVars, commandVars, serviceVars, historyVars>>

NextParser == ParseResponse

SpecParser == InitParser /\ [][NextParser]_vars

-----------------------------------------------------------------------------
(* The sanitizer as a state machine: stderr is captured and sanitized; the *)
(* result may be sanitized once more; a twin of the text, equal to it but  *)
(* for one path or one secret value, is sanitized on its own               *)

InitSanitizer ==
    /\ ListenerIdle
    /\ ParserIdle
    /\ pc = "idle"
    /\ \E n \in FillerLengths, list \in PieceLists, i \in 0..MaxPieces :
          /\ i <= Len(list)
          /\ stderrText = StderrOf(n, list)
          /\ twinText = TwinOf(n, list, i)
    /\ sanitized = null
    /\ resanitized = null
    /\ twinSanitized = null
    /\ ExtensionIdle
    /\ CommandIdle
    /\ ServiceIdle
    /\ HistoryIdle

SanitizeError ==
    /\ sanitized = null
    /\ sanitized' = Str(sanitizeError(stderrText))
    /\ UNCHANGED <<listenerVars, parserVars, pc, stderrText, twinText, resanitized,
                   twinSanitized, extensionVars, commandVars, serviceVars, historyVars>>

SanitizeAgain ==
    /\ sanitized # null
    /\ resanitized = null
    /\ resanitized' = Str(sanitizeError(sanitized.s))
    /\ UNCHANGED <<listenerVars, parserVars, pc, stderrText, twinText, sanitized,
                   twinSanitized, extensionVars, commandVars, serviceVars, historyVars>>

SanitizeTwin ==
    /\ twinSanitized = null
    /\ twinSanitized' = Str(sanitizeError(twinText))
    /\ UNCHANGED <<listenerVars, parserVars, pc, stderrText, twinText, sanitized,
                   resanitized, extensionVars, commandVars, serviceVars, historyVars>>

NextSanitizer == SanitizeError \/ SanitizeAgain \/ SanitizeTwin

SpecSanitizer == InitSanitizer /\ [][NextSanitizer]_vars

-----------------------------------------------------------------------------
(* The extension as a state machine.  knowledge is COMMON_ERRORS of the    *)
(* detector as it is at run time; requests holds the explainError calls    *)
(* that are waiting (for checkConnection, for the reasoning service, for   *)
(* the panel); shown is what the panel was last given                      *)

InitExtension ==
    /\ ListenerIdle
    /\ ParserIdle
    /\ pc = "idle"
    /\ SanitizerIdle
    /\ knowledge = COMMON_ERRORS_TS
    /\ requests = EmptyBag
    /\ shown = null
    /\ explained = 0
    /\ autoExplainEnabled \in BOOLEAN
    /\ statusBarItem = createdStatusBarItem
    /\ CommandIdle
    /\ ServiceIdle
    /\ HistoryIdle

\* an explainError call that waits: its arguments and what it waits for
Request(text, analysis_, awaited) ==
    [errorText |-> text,
     analysis |-> [language |-> analysis_.language, errorType |-> analysis_.errorType],
     at |-> awaited]

\* the call r goes on to wait for next
Moved(r, next) == (requests (-) SetToBag({r})) (+) SetToBag({[r EXCEPT !.at = next]})

\* errorDetector.analyzeError(output) on its own
DetectorAnalyzeError ==
    /\ \E output \in TerminalOutputs :
          /\ errorText' = output
          /\ analysis' = detectorAnalysis(knowledge, output)
    /\ UNCHANGED <<ret, parserVars, pc, sanitizerVars, extensionVars, commandVars, serviceVars, historyVars>>

\* explainSelectedError up to the first await of explainError: the text is
\* analysed, the status bar shows loading and checkConnection is awaited
ExplainSelectedError ==
    /\ explained < MaxRequests
    /\ \E selectedText \in TerminalOutputs :
          requests' = requests (+) SetToBag({Request(selectedText,
                                                 detectorAnalysis(knowledge, selectedText),
                                                 "checkConnection")})
    /\ explained' = explained + 1
    /\ statusBarItem' = updateStatusBar(statusBarItem, "loading")
    /\ UNCHANGED <<listenerVars, parserVars, pc, sanitizerVars, knowledge, shown,
                   autoExplainEnabled, commandVars, serviceVars, historyVars>>

\* handleTerminalExecution for a command that failed with an error in its
\* output, up to the first await after the analysis: with a notification that
\* is dismissed the status bar keeps showing the error, otherwise explainError
\* starts.  lastError, which only explainLastError reads, is left out
HandleTerminalExecution ==
    /\ autoExplainEnabled
    /\ explained < MaxRequests
    /\ \E output \in TerminalOutputs, explains \in BOOLEAN :
          LET analysis_ == detectorAnalysis(knowledge, output)
              detected == updateStatusBar(statusBarItem, "error")
          IN /\ analysis_.isError
             /\ IF explains
                THEN /\ requests' = requests (+) SetToBag({Request(output, analysis_,
                                                                   "checkConnection")})
                     /\ explained' = explained + 1
                     /\ statusBarItem' = updateStatusBar(detected, "loading")
                ELSE /\ UNCHANGED <<requests, explained>>
                     /\ statusBarItem' = detected
    /\ UNCHANGED <<listenerVars, parserVars, pc, sanitizerVars, knowledge, shown,
                   autoExplainEnabled, commandVars, serviceVars, historyVars>>

\* the status bar item is clicked, or the command is run
ToggleAutoExplain ==
    /\ autoExplainEnabled' = ~autoExplainEnabled
    /\ statusBarItem' = updateStatusBar(statusBarItem, stateOf(autoExplainEnabled'))
    /\ UNCHANGED <<listenerVars, parserVars, pc, sanitizerVars, knowledge, requests, shown,
                   explained, commandVars, serviceVars, historyVars>>

\* a setting of errorBuddy has changed: updateConfiguration reads autoExplain
UpdateConfiguration ==
    /\ \E autoExplain \in BOOLEAN : autoExplainEnabled' = autoExplain
    /\ statusBarItem' = updateStatusBar(statusBarItem, stateOf(autoExplainEnabled'))
    /\ UNCHANGED <<listenerVars, parserVars, pc, sanitizerVars, knowledge, requests, shown,
                   explained, commandVars, serviceVars, historyVars>>

\* checkConnection has resolved: explainError goes on to the reasoning service
\* or resolves the explanation locally and hands it to the panel; without a
\* panel it is done and the status bar shows ready
ConnectionChecked ==
    \E r \in BagToSet(requests), isConnected \in BOOLEAN, showInPanel \in BOOLEAN :
        /\ r.at = "checkConnection"
        /\ IF isConnected
           THEN /\ requests' = Moved(r, "explainError")
                /\ UNCHANGED <<knowledge, shown, statusBarItem>>
           ELSE LET ref == localExplanationRef(knowledge, r.analysis, r.errorText)
                IN /\ knowledge' = IF ref = null THEN knowledge
                                   ELSE markOffline(knowledge, ref)
                   /\ IF showInPanel
                      THEN /\ shown' = IF ref = null
                                       THEN [isNull |-> FALSE, o |-> genericExplanation]
                                       ELSE Deref(knowledge', ref)
                           /\ requests' = Moved(r, "show")
                           /\ statusBarItem' = statusBarItem
                      ELSE /\ shown' = shown
                           /\ requests' = requests (-) SetToBag({r})
                           /\ statusBarItem' = updateStatusBar(statusBarItem, "ready")
        /\ UNCHANGED <<listenerVars, parserVars, pc, sanitizerVars, explained,
                       autoExplainEnabled, commandVars, serviceVars, historyVars>>

\* ollamaService.explainError has settled: its explanation is handed to the
\* panel, or the call is done and the status bar shows ready; its failure ends
\* the call in the catch block, where the status bar shows error
ExplanationArrived ==
    \E r \in BagToSet(requests), failed \in BOOLEAN, showInPanel \in BOOLEAN :
        /\ r.at = "explainError"
        /\ IF ~failed /\ showInPanel
           THEN /\ shown' = [isNull |-> FALSE, o |-> serviceExplanation]
                /\ requests' = Moved(r, "show")
                /\ statusBarItem' = statusBarItem
           ELSE /\ shown' = shown
                /\ requests' = requests (-) SetToBag({r})
                /\ statusBarItem' = updateStatusBar(statusBarItem,
                                                    IF failed THEN "error" ELSE "ready")
        /\ UNCHANGED <<listenerVars, parserVars, pc, sanitizerVars, knowledge, explained,
                       autoExplainEnabled, commandVars, serviceVars, historyVars>>

\* explanationPanel.show has resolved: the status bar shows ready and
\* explainError returns
PanelShown ==
    \E r \in BagToSet(requests) :
        /\ r.at = "show"
        /\ requests' = requests (-) SetToBag({r})
        /\ statusBarItem' = updateStatusBar(statusBarItem, "ready")
        /\ UNCHANGED <<listenerVars, parserVars, pc, sanitizerVars, knowledge, shown,
                       explained, autoExplainEnabled, commandVars, serviceVars, historyVars>>

NextExtension ==
    \/ DetectorAnalyzeError
    \/ ExplainSelectedError
    \/ HandleTerminalExecution
    \/ ToggleAutoExplain
    \/ UpdateConfiguration
    \/ ConnectionChecked
    \/ ExplanationArrived
    \/ PanelShown

SpecExtension == InitExtension /\ [][NextExtension]_vars

-----------------------------------------------------------------------------
(* The CLI as a state machine: one run of errbuddy.  pending is what the   *)
(* child has yet to write to stderr; printed holds the blocks the CLI has  *)
(* printed besides the forwarded output; calls holds the requests made to  *)
(* the reasoning service                                                   *)

InitCommand ==
    /\ ListenerIdle
    /\ ParserIdle
    /\ pc = "idle"
    /\ SanitizerIdle
    /\ ExtensionIdle
    /\ options \in Options
    /\ at = "runCommand"
    /\ ollamaAvailable = FALSE
    /\ pending \in ChildOutputs
    /\ stderrBuffer = <<>>
    /\ errorDetected = FALSE
    /\ printed = <<>>
    /\ calls = <<>>
    /\ childStatus = null
    /\ exitStatus = null
    /\ ServiceIdle
    /\ HistoryIdle

\* runCommand up to its first await, or up to the spawn when nothing is awaited
RunCommand ==
    /\ at = "runCommand"
    /\ IF connects(options)
       THEN /\ calls' = Append(calls, "checkConnection")
            /\ at' = "checkConnection"
       ELSE /\ calls' = calls
            /\ at' = "running"
    /\ UNCHANGED <<listenerVars, parserVars, pc, sanitizerVars, extensionVars, options,
                   ollamaAvailable, pending, stderrBuffer, errorDetected, printed,
                   childStatus, exitStatus, serviceVars, historyVars>>

\* checkConnection has resolved: the notice is printed when Ollama is not
\* there, and the child is spawned
ConnectionResolved ==
    /\ at = "checkConnection"
    /\ \E available \in BOOLEAN :
          /\ ollamaAvailable' = available
          /\ printed' = IF available THEN printed
                        ELSE Append(printed, "Ollama not detected")
    /\ at' = "running"
    /\ UNCHANGED <<listenerVars, parserVars, pc, sanitizerVars, extensionVars, options,
                   pending, stderrBuffer, errorDetected, calls, childStatus, exitStatus, serviceVars, historyVars>>

\* the 'data' handler of child.stderr: a chunk is forwarded ("stderr" in
\* printed), buffered and looked at
StderrData ==
    /\ at = "running"
    /\ \E n \in 1..Len(pending) :
          LET text == SubSeq(pending, 1, n)
          IN /\ pending' = SubSeq(pending, n + 1, Len(pending))
             /\ stderrBuffer' = stderrBuffer \o text
             /\ errorDetected' = (errorDetected \/ detectError(text))
    /\ printed' = Append(printed, "stderr")
    /\ UNCHANGED <<listenerVars, parserVars, pc, sanitizerVars, extensionVars, options,
                   at, ollamaAvailable, calls, childStatus, exitStatus, serviceVars, historyVars>>

\* the 'close' handler up to its await, or up to process.exit when nothing is
\* awaited
ChildClosed ==
    /\ at = "running"
    /\ closeEvent(pending)
    /\ \E ending \in Endings :
          LET analysis_ == analyzeError(stderrBuffer)
              explains == errorDetected /\ NotBlank(stderrBuffer) /\ analysis_.isError
          IN /\ childStatus' = ending
             /\ IF explains /\ explainsWithAI(ollamaAvailable, options)
                THEN /\ printed' = Append(printed, "")
                     /\ calls' = Append(calls, "explainError")
                     /\ at' = "explainWithAI"
                     /\ exitStatus' = exitStatus
                ELSE /\ printed' = IF explains
                                   THEN printed \o <<"", patternBlock(analysis_)>>
                                   ELSE printed
                     /\ calls' = calls
                     /\ at' = "exited"
                     /\ exitStatus' = processExit(ending.code)
    /\ UNCHANGED <<listenerVars, parserVars, pc, sanitizerVars, extensionVars, options,
                   ollamaAvailable, pending, stderrBuffer, errorDetected, serviceVars, historyVars>>

\* aiService.explainError has settled: its explanation is printed, or the
\* failure notice and the pattern-based help; then the 'close' handler exits
ExplanationSettled ==
    /\ at = "explainWithAI"
    /\ \E failed \in BOOLEAN :
          printed' = IF failed
                     THEN printed \o caught(analyzeError(stderrBuffer))
                     ELSE Append(printed, "AI explanation")
    /\ at' = "exited"
    /\ exitStatus' = processExit(childStatus.code)
    /\ UNCHANGED <<listenerVars, parserVars, pc, sanitizerVars, extensionVars, options,
                   ollamaAvailable, pending, stderrBuffer, errorDetected, calls,
                   childStatus, serviceVars, historyVars>>

\* the 'error' handler: the command could not be started
SpawnFailed ==
    /\ at = "running"
    /\ stderrBuffer = <<>>
    /\ printed' = Append(printed, "Failed to run command")
    /\ at' = "exited"
    /\ exitStatus' = Number(1)
    /\ UNCHANGED <<listenerVars, parserVars, pc, sanitizerVars, extensionVars, options,
                   ollamaAvailable, pending, stderrBuffer, errorDetected, calls,
                   childStatus, serviceVars, historyVars>>

NextCommand ==
    \/ RunCommand
    \/ ConnectionResolved
    \/ StderrData
    \/ ChildClosed
    \/ ExplanationSettled
    \/ SpawnFailed

SpecCommand == InitCommand /\ [][NextCommand]_vars

-----------------------------------------------------------------------------
(* The AIService as a state machine: a call arms its timer and awaits      *)
(* fetch, then the body of the response.  reply is what fetch and the     *)
(* reading of the body gave, raised the error thrown inside the try block, *)
(* outcome how the call settled                                            *)

InitService ==
    /\ ListenerIdle
    /\ ParserIdle
    /\ pc = "idle"
    /\ SanitizerIdle
    /\ ExtensionIdle
    /\ CommandIdle
    /\ model \in ConfiguredModels
    /\ method = "none"
    /\ step = "idle"
    /\ timer = "unset"
    /\ reply = null
    /\ raised = null
    /\ outcome = null
    /\ served = 0
    /\ HistoryIdle

\* the call has settled with end: the try block threw or returned, the catch
\* block has run
Settled(end) ==
    /\ raised' = IF end.kind = "rejected" THEN Str(<<end.error.name>>) ELSE null
    /\ outcome' = IF method = "checkConnection" THEN caughtAsFalse(end)
                  ELSE translated(end)
    /\ step' = "settled"

\* checkConnection up to its await of fetch
CheckConnection ==
    /\ step \in {"idle", "settled"}
    /\ served < MaxCalls
    /\ method' = "checkConnection"
    /\ step' = "fetch"
    /\ timer' = "armed"
    /\ reply' = null
    /\ raised' = null
    /\ outcome' = null
    /\ served' = served + 1
    /\ UNCHANGED <<listenerVars, parserVars, pc, sanitizerVars, extensionVars, commandVars,
                   model, historyVars>>

\* explainError up to its await of fetch
ExplainError ==
    /\ step \in {"idle", "settled"}
    /\ served < MaxCalls
    /\ method' = "explainError"
    /\ step' = "fetch"
    /\ timer' = "armed"
    /\ reply' = null
    /\ raised' = null
    /\ outcome' = null
    /\ served' = served + 1
    /\ UNCHANGED <<listenerVars, parserVars, pc, sanitizerVars, extensionVars, commandVars,
                   model, historyVars>>

\* the timer's callback: controller.abort()
TimerFires ==
    /\ timer = "armed"
    /\ timer' = "fired"
    /\ UNCHANGED <<listenerVars, parserVars, pc, sanitizerVars, extensionVars, commandVars,
                   model, method, step, reply, raised, outcome, served, historyVars>>

\* fetch has settled (with an AbortError when the signal was aborted): the
\* timer is cleared, and the call goes on to read the body or settles
FetchSettled ==
    /\ step = "fetch"
    /\ timer' = IF timer = "armed" THEN "cleared" ELSE timer
    /\ \E fetched \in IF timer = "fired" THEN {Raised("AbortError")}
                      ELSE FetchErrors \cup Responses :
          /\ reply' = [isNull |-> FALSE, fetched |-> fetched, body |-> null]
          /\ IF "name" \in DOMAIN fetched THEN Settled(Threw(fetched))
             ELSE IF ~fetched.ok /\ method = "checkConnection"
                  THEN Settled(Returned(FALSE))
                  ELSE /\ step' = "body"
                       /\ UNCHANGED <<raised, outcome, historyVars>>
    /\ UNCHANGED <<listenerVars, parserVars, pc, sanitizerVars, extensionVars, commandVars,
                   model, method, served, historyVars>>

\* the body of the response has been read
BodyRead ==
    /\ step = "body"
    /\ \E body \in IF method = "checkConnection" THEN TagsBodies
                   ELSE IF reply.fetched.ok THEN GenerateBodies ELSE TextBodies :
          /\ reply' = [reply EXCEPT !.body = body]
          /\ IF method = "checkConnection"
             THEN /\ Settled(tagsRead(body, model).end)
                  /\ model' = tagsRead(body, model).model
             ELSE /\ Settled(IF reply.fetched.ok THEN generateRead(body)
                             ELSE textRead(body, reply.fetched.status))
                  /\ model' = model
    /\ UNCHANGED <<listenerVars, parserVars, pc, sanitizerVars, extensionVars, commandVars,
                   method, timer, served, historyVars>>

NextService ==
    \/ CheckConnection
    \/ ExplainError
    \/ TimerFires
    \/ FetchSettled
    \/ BodyRead

SpecService == InitService /\ [][NextService]_vars

-----------------------------------------------------------------------------
(* The HistoryService as a state machine: the file is absent at first,     *)
(* save() writes this.data to it.  savedIds holds the ids of the entries    *)
(* saved since the history was last cleared, returned what the last call    *)
(* returned                                                                 *)

InitHistory ==
    /\ ListenerIdle
    /\ ParserIdle
    /\ pc = "idle"
    /\ SanitizerIdle
    /\ ExtensionIdle
    /\ CommandIdle
    /\ ServiceIdle
    /\ history = emptyHistory
    /\ historyFile = null
    /\ savedIds = <<>>
    /\ returned = null

SaveError ==
    /\ history.nextId <= historyLimit + MaxOverflow
    /\ LET entry == newEntry(history.nextId)
       IN /\ history' = [errors |-> lastEntries(Append(history.errors, entry)),
                         nextId |-> history.nextId + 1]
          /\ savedIds' = Append(savedIds, entry.id)
          /\ returned' = Number(entry.id)
    /\ historyFile' = history'
    /\ UNCHANGED <<listenerVars, parserVars, pc, sanitizerVars, extensionVars,
                   commandVars, serviceVars>>

MarkHelpful ==
    /\ \E id \in MarkedIds, helpful \in BOOLEAN :
          LET i == findEntry(history.errors, id)
          IN IF i = 0 THEN UNCHANGED <<history, historyFile>>
             ELSE /\ history' = [history EXCEPT !.errors[i].helpful = Bool(helpful)]
                  /\ historyFile' = history'
    /\ returned' = null
    /\ UNCHANGED <<listenerVars, parserVars, pc, sanitizerVars, extensionVars,
                   commandVars, serviceVars, savedIds>>

ClearHistory ==
    /\ history' = emptyHistory
    /\ historyFile' = history'
    /\ savedIds' = <<>>
    /\ returned' = null
    /\ UNCHANGED <<listenerVars, parserVars, pc, sanitizerVars, extensionVars,
                   commandVars, serviceVars>>

NextHistory == SaveError \/ MarkHelpful \/ ClearHistory

SpecHistory == InitHistory /\ [][NextHistory]_vars

-----------------------------------------------------------------------------
(* The ErrorListener and the parser together *)

Init == InitListener \/ InitParser

Next == NextListener \/ NextParser

Spec == Init /\ [][Next]_vars

-----------------------------------------------------------------------------
(* Properties of the ErrorListener *)

\* the order in which detectLanguage tries the languages
LanguageOrder == <<"javascript", "java", "csharp">>

DetectedLanguages == {Lang(LanguageOrder[i]) : i \in 1..Len(LanguageOrder)}

\* C1: detectLanguage returns the first language, in the order javascript,
\* java, csharp, that has an indicator pattern matching the text, whatever
\* later languages also match, and null when no language has one.
C1_FirstLanguageWins ==
    pc = "detectLanguage" =>
        /\ \A i \in 1..Len(LanguageOrder) :
              ( /\ Indicates(LanguageOrder[i], errorText)
                /\ \A j \in 1..(i - 1) : ~Indicates(LanguageOrder[j], errorText) )
              => ret = Lang(LanguageOrder[i])
        /\ (\A i \in 1..Len(LanguageOrder) : ~Indicates(LanguageOrder[i], errorText))
              => ret = null

\* a text with javascript and java indicators is reported as javascript
C1_SeveralLanguagesMatch ==
    /\ pc = "detectLanguage"
    /\ Indicates("javascript", errorText)
    /\ Indicates("java", errorText)
    /\ ret = Lang("javascript")

\* patterns[i] is the first pattern of the list that matches the text
FirstToMatch(patterns, i, text) ==
    /\ Test(patterns[i], text)
    /\ \A j \in 1..(i - 1) : ~Test(patterns[j], text)

\* match[1] || null of patterns[i] on the text
TypeGiven(patterns, i, text) ==
    OrNull(Captured(Match(patterns[i], text), text, 1))

\* C2: when a language is detected, analyzeError takes errorType from capture
\* group 1 of the first entry of that language's pattern list that matches the
\* text, never from a later entry that matches too.
C2_FirstPatternWins ==
    (pc = "analyzeError" /\ analysis.language \in DetectedLanguages) =>
        LET patterns == ERROR_PATTERNS[analysis.language.s[1]].patterns
        IN \A i \in 1..Len(patterns) :
              FirstToMatch(patterns, i, errorText)
              => analysis.errorType = TypeGiven(patterns, i, errorText)

\* two entries match and would give different error types; the earlier one's
\* is reported
C2_LaterPatternAlsoMatches ==
    /\ pc = "analyzeError"
    /\ analysis.language \in DetectedLanguages
    /\ LET patterns == ERROR_PATTERNS[analysis.language.s[1]].patterns
       IN \E i, j \in 1..Len(patterns) :
             /\ i < j
             /\ FirstToMatch(patterns, i, errorText)
             /\ Test(patterns[j], errorText)
             /\ TypeGiven(patterns, j, errorText) # TypeGiven(patterns, i, errorText)
             /\ analysis.errorType = TypeGiven(patterns, i, errorText)

\* the text of the TypeError scenario
TypeErrorText == JoinLines(<<SampleLines[1], SampleLines[2]>>)

\* C3: for "TypeError: Cannot read properties of undefined (reading 'map')"
\* followed by the frame " at app.js:12:5", analyzeError reports an error of
\* language javascript and type TypeError, a file containing app.js, line 12,
\* column 5, and the explanation of the TypeError property-access entry.
C3_TypeErrorScenario ==
    (pc = "analyzeError" /\ errorText = TypeErrorText) =>
        /\ analysis.isError
        /\ analysis.language = Lang("javascript")
        /\ analysis.errorType = Str(<<"Type", "Error">>)
        /\ Truthy(analysis.file)
        /\ Includes(analysis.file.s, <<"app", ".", "js">>)
        /\ analysis.line = Str(<<"12">>)
        /\ analysis.column = Str(<<"5">>)
        /\ analysis.localExplanation
              = COMMON_ERRORS.javascript[1].subErrors[1].explanation

\* C4: when analyzeError detects no language, errorType, file, line and column
\* are all null, whatever the text contains.
C4_NoLanguageNoExtraction ==
    (pc = "analyzeError" /\ ~analysis.threw
        /\ analysis.language \notin DetectedLanguages) =>
        /\ analysis.errorType = null
        /\ analysis.file = null
        /\ analysis.line = null
        /\ analysis.column = null

\* no language is detected in a text that an error pattern and a file/line
\* pattern both match
C4_UndetectedYetMatching ==
    /\ pc = "analyzeError"
    /\ analysis.language \notin DetectedLanguages
    /\ \E l \in DOMAIN ERROR_PATTERNS :
          \E i \in 1..Len(ERROR_PATTERNS[l].patterns) :
             /\ Test(ERROR_PATTERNS[l].patterns[i], errorText)
             /\ TypeGiven(ERROR_PATTERNS[l].patterns, i, errorText) # null
    /\ \E l \in DOMAIN ERROR_PATTERNS :
          Test(ERROR_PATTERNS[l].fileLinePattern, errorText)
    /\ analysis.errorType = null
    /\ analysis.file = null

\* the text matches no language indicator and no generic error indicator
NoIndicators(text) ==
    /\ \A i \in 1..Len(LanguageOrder) : ~Indicates(LanguageOrder[i], text)
    /\ \A i \in 1..Len(errorIndicators) : ~Test(errorIndicators[i], text)

\* C5 as stated: for a text without language indicators and without generic
\* error indicators, analyzeError returns isError = false and a null language.
C5_NullLanguage ==
    (pc = "analyzeError" /\ NoIndicators(errorText)) =>
        /\ analysis.isError = FALSE
        /\ analysis.language = null

\* C5: for a text without language indicators and without generic error
\* indicators, analyzeError returns isError = false and the language 'unknown',
\* a string that is not null.
C5_UnknownLanguage ==
    (pc = "analyzeError" /\ NoIndicators(errorText)) =>
        /\ analysis.isError = FALSE
        /\ analysis.language = Lang("unknown")
        /\ analysis.language # null

\* a text that is not blank and has no indicator was analysed
C5_PlainTextAnalysed ==
    /\ pc = "analyzeError"
    /\ \E i \in 1..Len(errorText) : errorText[i] \notin Spaces
    /\ NoIndicators(errorText)
    /\ analysis.isError = FALSE

\* the top-level key of the entry occurs in the text or in the error type
KeyOccurs(entry, errorType, text) ==
    \/ Includes(text, entry.key)
    \/ (~errorType.isNull /\ Includes(errorType.s, entry.key))

\* the entry has a sub-pattern that is 'default' or occurs in the text
Applicable(entry, text) ==
    \E i \in 1..Len(entry.subErrors) :
        entry.subErrors[i].key = <<"default">> \/ Includes(text, entry.subErrors[i].key)

ExplanationsOf(entry) ==
    {entry.subErrors[i].explanation : i \in 1..Len(entry.subErrors)}

\* the explanation a call of getLocalExplanation gave, by analyzeError or directly
Explained ==
    IF pc = "analyzeError" THEN analysis.localExplanation
    ELSE IF pc = "getLocalExplanation" THEN ret
    ELSE null

\* C6 as stated: the explanation returned belongs to the first top-level key,
\* in iteration order, that occurs in the text or the error type.
C6_FirstOccurringKey ==
    Explained # null =>
        LET entries == COMMON_ERRORS[analysis.language.s[1]]
        IN \A i \in 1..Len(entries) :
              ( /\ KeyOccurs(entries[i], analysis.errorType, errorText)
                /\ \A j \in 1..(i - 1) :
                      ~KeyOccurs(entries[j], analysis.errorType, errorText) )
              => Explained \in ExplanationsOf(entries[i])

\* C6: the explanation returned belongs to the first top-level key, in
\* iteration order, that occurs in the text or the error type and has a
\* sub-pattern that is 'default' or occurs in the text; keys after it are not
\* consulted, keys before it that occur without such a sub-pattern are skipped.
C6_FirstApplicableKey ==
    Explained # null =>
        LET entries == COMMON_ERRORS[analysis.language.s[1]]
            usable(i) == /\ KeyOccurs(entries[i], analysis.errorType, errorText)
                         /\ Applicable(entries[i], errorText)
        IN \A i \in 1..Len(entries) :
              (usable(i) /\ \A j \in 1..(i - 1) : ~usable(j))
              => Explained \in ExplanationsOf(entries[i])

\* two keys occur with an applicable sub-pattern each; the explanation is the
\* earlier one's
C6_TwoKeysApply ==
    /\ Explained # null
    /\ LET entries == COMMON_ERRORS[analysis.language.s[1]]
           usable(i) == /\ KeyOccurs(entries[i], analysis.errorType, errorText)
                        /\ Applicable(entries[i], errorText)
       IN \E i, j \in 1..Len(entries) :
             /\ i < j
             /\ usable(i)
             /\ usable(j)
             /\ \A k \in 1..(i - 1) : ~usable(k)
             /\ Explained \in ExplanationsOf(entries[i])
             /\ Explained \notin ExplanationsOf(entries[j])

\* single-line JavaScript messages of the supported kinds, without a frame
JavaScriptMessages ==
    {SampleLines[1], SampleLines[3], SampleLines[4], SampleLines[5],
     SampleLines[6], SampleLines[7]}

\* C18: for a single-line JavaScript message of a supported kind, given
\* without a stack frame, detectError returns true and detectLanguage returns
\* 'javascript'.
C18_SingleLineJavaScript ==
    errorText \in JavaScriptMessages =>
        /\ pc = "detectError" => ret = TRUE
        /\ pc = "detectLanguage" => ret = Lang("javascript")

\* the value is a number, as parseInt gives, not a string
IsNumber(v) == "n" \in DOMAIN v

\* C19: whenever analyzeError sets line or column, the value is an integer
\* parsed from the captured digits, never the captured string.
C19_LineColumnParsed ==
    (pc = "analyzeError" /\ ~analysis.threw) =>
        /\ analysis.line # null => IsNumber(analysis.line)
        /\ analysis.column # null => IsNumber(analysis.column)

\* entries[i] is the first entry whose key occurs and that has an applicable
\* sub-pattern
FirstUsable(entries, i, errorType, text) ==
    /\ KeyOccurs(entries[i], errorType, text)
    /\ Applicable(entries[i], text)
    /\ \A j \in 1..(i - 1) :
          ~(KeyOccurs(entries[j], errorType, text) /\ Applicable(entries[j], text))

\* subErrors[k] is the first sub-pattern that is 'default' or occurs in the text
FirstApplicable(subErrors, k, text) ==
    /\ subErrors[k].key = <<"default">> \/ Includes(text, subErrors[k].key)
    /\ \A j \in 1..(k - 1) :
          ~(subErrors[j].key = <<"default">> \/ Includes(text, subErrors[j].key))

\* C20: within the top-level key that matched, getLocalExplanation returns the
\* first sub-pattern entry, in the defined order, whose key is 'default' or
\* occurs in the text; the result is null when the language has no knowledge
\* and when no top-level key occurs.
C20_FirstSubPattern ==
    pc \in {"analyzeError", "getLocalExplanation"} =>
        IF analysis.language \notin DetectedLanguages THEN Explained = null
        ELSE LET entries == COMMON_ERRORS[analysis.language.s[1]]
             IN /\ \A i \in 1..Len(entries) :
                      FirstUsable(entries, i, analysis.errorType, errorText)
                      => \A k \in 1..Len(entries[i].subErrors) :
                            FirstApplicable(entries[i].subErrors, k, errorText)
                            => Explained = entries[i].subErrors[k].explanation
                /\ (\A i \in 1..Len(entries) :
                       ~KeyOccurs(entries[i], analysis.errorType, errorText))
                      => Explained = null

\* two sub-patterns of the matched key occur in the text; the explanation is
\* that of the earlier one
C20_TwoSubPatternsOccur ==
    /\ pc \in {"analyzeError", "getLocalExplanation"}
    /\ analysis.language \in DetectedLanguages
    /\ LET entries == COMMON_ERRORS[analysis.language.s[1]]
       IN \E i \in 1..Len(entries) :
             /\ FirstUsable(entries, i, analysis.errorType, errorText)
             /\ \E k, l \in 1..Len(entries[i].subErrors) :
                   /\ k < l
                   /\ FirstApplicable(entries[i].subErrors, k, errorText)
                   /\ Includes(errorText, entries[i].subErrors[l].key)
                   /\ Explained = entries[i].subErrors[k].explanation

-----------------------------------------------------------------------------
(* Properties of the ErrorListener and the parser together *)

-----------------------------------------------------------------------------
(* Properties of the parser *)

\* the response has no character other than white space
Blank(str) == \A i \in 1..Len(str) : str[i] \in WhiteSpace

\* C8: parseResponse returns the whole input unchanged as raw, and for an empty
\* or blank input it leaves what, why, fix and example null.
C8_RawKeptBlankEmpty ==
    pc = "parseResponse" =>
        /\ result.raw = response
        /\ Blank(response) =>
              /\ result.what = null
              /\ result.why = null
              /\ result.fix = null
              /\ result.example = null

\* a blank response that is not empty was parsed
C8_BlankParsed ==
    /\ pc = "parseResponse"
    /\ Len(response) > 0
    /\ Blank(response)
    /\ result.raw = response
    /\ result.what = null

\* the four labels, in the order of SampleParts
Markers == <<WHAT, WHY, FIX, EXAMPLE>>

\* the part is a label followed by content; its label
Labeled(part) == part \in 1..Len(Markers)

\* the parts are labeled sections with content, possibly followed by parts
\* without a label, each label occurring once
LabeledSections(parts) ==
    /\ Len(parts) > 0
    /\ Labeled(parts[1])
    /\ \A i \in 1..Len(parts) : parts[i] \notin {5, 9}
    /\ \A i, j \in 1..Len(parts) : (i # j /\ Labeled(parts[i])) => parts[i] # parts[j]

\* the last part of the section that starts at part i
RECURSIVE SectionEnd(_, _)
SectionEnd(parts, i) ==
    IF i = Len(parts) \/ Labeled(parts[i + 1]) THEN i ELSE SectionEnd(parts, i + 1)

\* the trimmed text that follows the label of the section starting at part i
ContentOf(parts, i) ==
    LET lines == [k \in i..SectionEnd(parts, i) |-> SampleParts[parts[k]]]
        text == Join([k \in 1..(SectionEnd(parts, i) - i + 1) |-> lines[i + k - 1]],
                     <<"\n">>)
    IN Trim(SubSeq(text, Len(Markers[parts[i]]) + 1, Len(text)))

\* the field of the result that belongs to label m
FieldOf(res, m) ==
    CASE m = 1 -> res.what [] m = 2 -> res.why [] m = 3 -> res.fix [] m = 4 -> res.example

\* C9: whatever the order of the labeled sections WHAT:, WHY:, FIX:, EXAMPLE:
\* in the response, the field of each label that is present equals the trimmed
\* content that follows that label up to the next label, and nothing of any
\* other section, provided the content has no label in it.
C9_SectionsInAnyOrder ==
    (pc = "parseResponse" /\ LabeledSections(responseParts)) =>
        \A i \in 1..Len(responseParts) :
            Labeled(responseParts[i])
            => FieldOf(result, responseParts[i]) = Str(ContentOf(responseParts, i))

\* the four sections were parsed in an order that is not WHAT, WHY, FIX, EXAMPLE
C9_FourSectionsShuffled ==
    /\ pc = "parseResponse"
    /\ LabeledSections(responseParts)
    /\ Len(responseParts) = 4
    /\ \A i \in 1..4 : Labeled(responseParts[i])
    /\ responseParts # <<1, 2, 3, 4>>
    /\ result.what = Str(<<"a">>)
    /\ result.why = Str(<<"b">>)
    /\ result.fix = Str(<<"c">>)
    /\ result.example = Str(<<"d">>)

\* what the label step takes for label m
TakenFor(m) ==
    sectionOf(sectionPattern(Markers[m],
                             SelectSeq(Markers, LAMBDA other : other # Markers[m])),
              response)

\* the conclusion of C10: the fields what, why and fix are as the label step
\* left them, null where the label is absent
FallbackLeftOut ==
    \A m \in 1..3 :
        /\ FieldOf(result, m) = TakenFor(m)
        /\ ~Includes(response, Markers[m]) => FieldOf(result, m) = null

\* C10 as stated: when the label step took at least one of what, why and fix
\* from a label, the fallback does not run: a field whose label is absent stays
\* null and a field taken from a label is not overwritten.
C10_FallbackOnlyWhenNoneTaken ==
    (pc = "parseResponse" /\ \E m \in 1..3 : TakenFor(m) # null) => FallbackLeftOut

\* C10: when the label step took a text that is not empty after trimming for
\* at least one of what, why and fix, the fallback does not run: a field whose
\* label is absent stays null and a field taken from a label is not
\* overwritten.
C10_FallbackOnlyWhenNoneFilled ==
    (pc = "parseResponse" /\ \E m \in 1..3 : Truthy(TakenFor(m))) => FallbackLeftOut

\* a response with two sentences and a WHY section only: why is taken from the
\* label, what and fix stay null
C10_SentencesNotUsed ==
    /\ pc = "parseResponse"
    /\ Truthy(TakenFor(2))
    /\ ~Includes(response, WHAT)
    /\ ~Includes(response, FIX)
    /\ Len(sentencesOf(response)) >= 2
    /\ result.what = null
    /\ result.fix = null

-----------------------------------------------------------------------------
(* Properties of the sanitizer *)

\* C11: sanitizing a sanitized text changes nothing, for every text, long
\* texts and texts with a secret key at the truncation point included
C11_Idempotent == resanitized # null => resanitized = sanitized

\* the texts of C11: longer than maxErrorLength, with a key and its separator
\* as the last characters kept
C11_KeyAtTruncationPoint ==
    /\ resanitized # null
    /\ Len(stderrText) > maxErrorLength
    /\ SubSeq(stderrText, maxErrorLength - 5, maxErrorLength) = SamplePieces[5]

\* C12: two stderr texts that differ only in an absolute path or in the value
\* of a secret key are handed to the reasoning service as the same text
C12_TwinsSanitizeAlike ==
    (sanitized # null /\ twinSanitized # null) => sanitized = twinSanitized

-----------------------------------------------------------------------------
(* Properties of the extension *)

\* C13: the knowledge base is never written: every entry keeps the fields and
\* values it had at startup, whatever explainError calls have run
C13_KnowledgeReadOnly == knowledge = COMMON_ERRORS_TS

-----------------------------------------------------------------------------
(* Properties of the CLI *)

\* C14: when the child was spawned and has closed, the CLI exits with exactly
\* the status the child ended with
C14_ExitCodePreserved ==
    (at = "exited" /\ childStatus # null) => exitStatus = childStatus.code

\* C15: under --offline no request is made to the reasoning service, and what
\* is printed is never an AI explanation
C15_OfflineMakesNoRequest ==
    options.offline =>
        /\ calls = <<>>
        /\ \A i \in 1..Len(printed) :
              printed[i] \notin {"AI explanation", "AI explanation failed",
                                 "Ollama not detected"}

\* an offline run of a failing command that has ended with pattern-based help
C15_OfflineRunExplained ==
    /\ options.offline
    /\ options.ai
    /\ at = "exited"
    /\ \E i \in 1..Len(printed) : printed[i] = "pattern explanation"

-----------------------------------------------------------------------------
(* Properties of the AIService *)

\* C16: when the abort timer of explainError has fired, and whenever the
\* request raised an AbortError or a TimeoutError, explainError rejects with
\* the timed-out message and returns no explanation
C16_TimeoutTranslated ==
    (method = "explainError" /\ step = "settled"
        /\ (timer = "fired" \/ raised \in {Str(<<"AbortError">>), Str(<<"TimeoutError">>)}))
    => outcome = Threw(Error(timedOut))

\* the timer of explainError has fired and the call has settled
C16_TimerFired == method = "explainError" /\ step = "settled" /\ timer = "fired"

\* the request of a settled call failed: it was aborted, fetch threw, the
\* status was not OK, or the body could not be read
Failed ==
    \/ timer = "fired"
    \/ "name" \in DOMAIN reply.fetched
    \/ ~reply.fetched.ok
    \/ (reply.body # null /\ ~reply.body.readable)

AllNamedUntilMatch(names, base) ==
    \A i \in 1..Len(names) :
        names[i] = null =>
            \E j \in 1..(i - 1) : names[j] # null /\ StartsWith(names[j].s, base)

\* the JSON data of /api/tags can be used by a service made for model_
Usable(data, model_) ==
    /\ data # null
    /\ data.models # null => AllNamedUntilMatch(data.models.list, BaseName(model_))

-----------------------------------------------------------------------------
(* Further properties of the ErrorListener                                 *)

\* C21: for every text, when the generic error indicators of detectError match
\* it, analyzeError reports isError = true, also when a language is detected
\* and none of its patterns matches.
C21_DetectedMeansError ==
    (pc = "analyzeError" /\ ~analysis.threw) =>
        (detectError(errorText) => analysis.isError)

-----------------------------------------------------------------------------
(* Further properties of the parser                                        *)

\* the labels other than label m
OtherMarkers(m) == SelectSeq(Markers, LAMBDA other : other # Markers[m])

\* the trimmed text between the first label m of the response and the next
\* other label, or the end of the text
SectionText(m) ==
    LET first == Match(LitIgnoreCase(Markers[m]), response)
        others == OtherMarkers(m)
        next == SearchFrom(Alt(<<LitIgnoreCase(others[1]), LitIgnoreCase(others[2]),
                                 LitIgnoreCase(others[3])>>), response, first.e)
    IN Trim(SubSeq(response, first.e, IF next.ok THEN next.b - 1 ELSE Len(response)))

\* C22: each field that parseResponse extracts from a label equals the trimmed
\* text between that label and the next label or the end of the text, also when
\* the label is followed at once by another label; so no extracted field holds
\* another section's label or content.
C22_FieldIsSectionText ==
    pc = "parseResponse" =>
        \A m \in 1..4 :
            TakenFor(m) # null =>
                /\ TakenFor(m) = Str(SectionText(m))
                /\ \A o \in 1..3 : ~Test(LitIgnoreCase(OtherMarkers(m)[o]), TakenFor(m).s)

\* the label step left what, why and fix empty, so the sentence fallback runs
FallbackFires == \A m \in 1..3 : ~Truthy(TakenFor(m))

\* position p holds sentence-ending punctuation followed by white space
BreakAt(str, p) == str[p] \in {".", "!"} /\ p < Len(str) /\ str[p + 1] \in WhiteSpace

\* the first position at or after p that holds no white space
RECURSIVE AfterSpaces(_, _)
AfterSpaces(str, p) ==
    IF p <= Len(str) /\ str[p] \in WhiteSpace THEN AfterSpaces(str, p + 1) ELSE p

\* the pieces between the breaks of str, from the piece that starts at p on
RECURSIVE PiecesFrom(_, _, _)
PiecesFrom(str, p, q) ==
    IF q > Len(str) THEN <<SubSeq(str, p, Len(str))>>
    ELSE IF BreakAt(str, q)
         THEN <<SubSeq(str, p, q - 1)>>
                  \o PiecesFrom(str, AfterSpaces(str, q + 1), AfterSpaces(str, q + 1))
         ELSE PiecesFrom(str, p, q + 1)

\* the sentences of the response: the pieces that are not blank
Sentences == SelectSeq(PiecesFrom(response, 1, 1), LAMBDA piece : ~Blank(piece))

\* C23 as stated: when the sentence fallback fires, what is the first sentence,
\* why the second, and fix the remaining sentences joined with '. '; a field
\* that has no sentence stays unset.
C23_FieldsAreSentences ==
    (pc = "parseResponse" /\ FallbackFires) =>
        /\ result.what = IF Len(Sentences) >= 1 THEN Str(Trim(Sentences[1]))
                         ELSE TakenFor(1)
        /\ result.why = IF Len(Sentences) >= 2 THEN Str(Trim(Sentences[2]))
                        ELSE TakenFor(2)
        /\ result.fix = IF Len(Sentences) >= 3
                        THEN Str(Trim(Join(SubSeq(Sentences, 3, Len(Sentences)),
                                           <<".", " ">>)))
                        ELSE TakenFor(3)

\* C23: when the sentence fallback fires, the text is split on sentence-ending
\* punctuation followed by white space; what is the first sentence, trimmed,
\* with '.' appended, why the second sentence, trimmed, with '.' appended, and
\* fix the remaining sentences joined with '. ' and trimmed; with one sentence
\* only what is set, with two only what and why, the other fields staying as
\* the label step left them (null or empty).
C23_FieldsAreClosedSentences ==
    (pc = "parseResponse" /\ FallbackFires) =>
        /\ result.what = IF Len(Sentences) >= 1 THEN Str(Trim(Sentences[1]) \o <<".">>)
                         ELSE TakenFor(1)
        /\ result.why = IF Len(Sentences) >= 2 THEN Str(Trim(Sentences[2]) \o <<".">>)
                        ELSE TakenFor(2)
        /\ result.fix = IF Len(Sentences) >= 3
                        THEN Str(Trim(Join(SubSeq(Sentences, 3, Len(Sentences)),
                                           <<".", " ">>)))
                        ELSE TakenFor(3)
        /\ \A m \in 1..3 : Len(Sentences) < m => ~Truthy(FieldOf(result, m))

\* the fallback ran on a response of four sentences: fix joins the last two
C23_FourSentences ==
    /\ pc = "parseResponse"
    /\ FallbackFires
    /\ Len(Sentences) = 4
    /\ result.what = Str(Trim(Sentences[1]) \o <<".">>)
    /\ result.fix = Str(Trim(Sentences[3]) \o <<".", " ">> \o Trim(Sentences[4]))

\* the response has an EXAMPLE: label with content after it
ExampleSectionPresent == Test(LitIgnoreCase(EXAMPLE), response) /\ SectionText(4) # <<>>

\* C24: example is the content of the EXAMPLE: section when the response has
\* one with content; otherwise, when the text holds a block between triple
\* grave accents, with or without a language tag, example is the trimmed inner
\* content of the first such block, whether the labels or the sentences filled
\* the other fields; otherwise example stays unset.
C24_ExampleSource ==
    pc = "parseResponse" =>
        LET block == Match(codePattern, response)
        IN IF ExampleSectionPresent THEN result.example = Str(SectionText(4))
           ELSE IF block.ok
                THEN result.example = Str(Trim(Captured(block, response, 1).s))
                ELSE ~Truthy(result.example)

-----------------------------------------------------------------------------
(* Further properties of the sanitizer                                     *)

\* stderrText after the three substitutions, before truncation
Substituted ==
    ReplaceAll(secretPattern,
               ReplaceAll(unixPathPattern,
                          ReplaceAll(windowsPathPattern, stderrText, pathAndSeparator),
                          pathPlaceholder),
               redactedPlaceholder)

\* a placeholder lies across the end of the first n characters of str
CutsPlaceholder(str, n) ==
    \E placeholder \in {pathPlaceholder, redactedPlaceholder} :
        \E i \in 1..n :
            /\ i + Len(placeholder) - 1 > n
            /\ i + Len(placeholder) - 1 <= Len(str)
            /\ SubSeq(str, i, i + Len(placeholder) - 1) = placeholder

\* C25: truncation comes last: a substituted text longer than maxErrorLength
\* gives exactly its first maxErrorLength characters followed by the
\* truncation marker, a shorter one is returned unchanged, and the truncation
\* cuts no placeholder ([path], [REDACTED]) in the middle.
C25_TruncationLast ==
    sanitized # null =>
        /\ sanitized.s = IF Len(Substituted) > maxErrorLength
                         THEN SubSeq(Substituted, 1, maxErrorLength) \o truncationMarker
                         ELSE Substituted
        /\ Len(Substituted) > maxErrorLength
              => ~CutsPlaceholder(Substituted, maxErrorLength)

-----------------------------------------------------------------------------
(* Further properties of the CLI                                           *)

\* the blocks that explain an error: from the reasoning service, from the
\* knowledge base, or the generic help of printPatternExplanation
ExplanationBlocks == {"AI explanation", "pattern explanation", "generic help"}

\* C26: each chunk of the child's stderr is written to the user's stderr before
\* any explanation is printed: an explanation is printed only by the close
\* handler, when the child has ended and every chunk has been forwarded and
\* buffered, never while the child is running.
C26_ForwardedBeforeExplained ==
    \A i \in 1..Len(printed) :
        printed[i] \in ExplanationBlocks =>
            /\ pending = <<>>
            /\ childStatus # null
            /\ at = "exited"
            /\ \A j \in (i + 1)..Len(printed) : printed[j] # "stderr"

\* an explanation was printed after stderr had arrived in two chunks
C26_TwoChunksThenExplained ==
    /\ at = "exited"
    /\ Len(printed) >= 3
    /\ printed[1] = "stderr"
    /\ printed[2] = "stderr"
    /\ printed[Len(printed)] \in ExplanationBlocks

\* the close handler went on to explain the error: it printed the blank line
\* that precedes every explanation
WentOnToExplain == \E i \in 1..Len(printed) : printed[i] = ""

\* C27: whether a run produces an explanation is determined by the complete
\* buffered stderr text only: however the text was split into chunks, also in
\* the middle of an error indicator, the run decides as a run that received it
\* in one chunk.
C27_ChunkingIrrelevant ==
    childStatus # null =>
        (WentOnToExplain <=> /\ detectError(stderrBuffer)
                             /\ NotBlank(stderrBuffer)
                             /\ analyzeError(stderrBuffer).isError)

\* the close handler found an error in the run: an indicator was seen in some
\* chunk, the buffer is not blank and its analysis says error
ErrorFound ==
    /\ childStatus # null
    /\ errorDetected
    /\ NotBlank(stderrBuffer)
    /\ analyzeError(stderrBuffer).isError

-----------------------------------------------------------------------------
(* Properties of the HistoryService                                        *)

\* the number of entries that are kept of n saved ones
Kept(n) == IF n > historyLimit THEN historyLimit ELSE n

\* C29: after any sequence of saveError, markHelpful and clearHistory calls
\* the stored list holds at most 500 entries; they are exactly the entries
\* saved last since the history was cleared, in the order they were saved and
\* with strictly increasing ids; saveError returns the id of the entry it
\* appended.
C29_RecentEntriesKept ==
    LET errors == history.errors
        n == Len(savedIds)
    IN /\ Len(errors) <= historyLimit
       /\ Len(errors) = Kept(n)
       /\ \A i \in 1..Len(errors) : errors[i].id = savedIds[n - Kept(n) + i]
       /\ \A i \in 1..(Len(errors) - 1) : errors[i].id < errors[i + 1].id
       /\ returned # null => returned = Number(errors[Len(errors)].id)
       /\ historyFile # null => historyFile = history

\* more than 500 entries were saved: the oldest is gone, 500 are kept, and a
\* kept one has been marked
C29_OldestDropped ==
    /\ Len(savedIds) = historyLimit + 1
    /\ Len(history.errors) = historyLimit
    /\ history.errors[1].id = 2
    /\ history.errors[1].helpful = Bool(TRUE)
    /\ returned = Number(historyLimit + 1)

-----------------------------------------------------------------------------
(* Further properties of the extension                                     *)

\* C30: after any sequence of toggles, configuration changes, terminal
\* executions and manual explain requests, also overlapping ones, the status
\* bar shows 'Error Buddy (off)' exactly when auto-explain is disabled, and an
\* active state exactly when it is enabled.
C30_StatusBarTellsAutoExplain ==
    (statusBarItem.text = "$(bug) Error Buddy (off)") <=> ~autoExplainEnabled

====
